---- MODULE Spec2Model ----
(***************************************************************************)
(* A model of cattleshed's per-connection session engine                   *)
(* (cattleshed/src/server.cc): the admission semaphore and the listener,   *)
(* the framed socket write buffer, the staging writer's path handling and  *)
(* the two-phase program runner.  Each component has its own               *)
(* specification; the variables of the other components stay at their      *)
(* initial values.                                                         *)
(***************************************************************************)
EXTENDS Integers, Sequences, FiniteSets, TLC

\* ------------------------------------------------------------------------
\* Bounds of the model
\* ------------------------------------------------------------------------
MaxConn == 3
MaxSessions == 5
MaxFrames == 4
MaxPathLen == 6
MaxNameLen == 3
\* a session's children spawned and ended, chunks read and timer expiries, together
MaxEvents == 5
MaxFramesIn == 3
MaxSplitFrames == 2
MaxWaiters == 2
MaxSignals == 2
MaxSessionEvents == 4
MaxCompilers == 3
MaxOptionLen == 3
MaxRawLen == 2
MaxSignalEvents == 4

VARIABLES
    \* listener and counting_semaphore
    max_connections,   \* config.system.max_connections
    des,               \* the eventfd counter behind counting_semaphore::des
    listener_pc,       \* where the listener coroutine is suspended
    session,           \* per accepted connection: "none", "active", "ended"
    sem_read,          \* the session whose semaphore_object's read is pending, or 0
    \* a socket_write_buffer on its own, with producers around it
    sockbuf,           \* the socket_write_buffer
    sock,              \* the tcp::socket it writes to
    submitted,         \* the frames in the order of the async_write_command calls
    done,              \* how many times each frame's handler has been invoked
    \* recursive_create_open_at on its own
    relative_path,     \* the filename argument
    no_fd,             \* the process is out of file descriptors (openat fails, EMFILE)
    path_pc,           \* "call" before the call, "returned" after it
    create_result,     \* what the call returned and did
    \* program_writer
    writer,            \* the program_writer coroutine and the directories it writes
    staged,            \* the files made so far, each with the client's filename
    \* program_runner (with sockbuf its write buffer and sock the client socket)
    runner_pc,         \* "constructed", then "running" once operator() was called
    procs,             \* the children spawned so far, each with its four forwarders
                       \* and the continuation waiting on kill_timer for it
    limitter,          \* the write_limit_counter
    \* compiler_bridge
    bridge,            \* the compiler_bridge coroutine
    inbound,           \* the bytes the client has sent and the bridge has not read
    sent,              \* the frames the client sends on this connection
    \* status_forwarder
    status_waiters,    \* the status_forwarders waiting on the shared signal set
    undelivered,       \* the signals that arrived with no wait queued
    signalled,         \* the signals of no child of the waiters so far
    \* the session
    version,           \* the version_sender coroutine
    sem_released,      \* the units the session's semaphore_object has returned
    \* the command lines of program_runner
    commands           \* target_compiler, received and the commands made of them

listenerVars == <<max_connections, des, listener_pc, session, sem_read>>
bufferVars == <<sockbuf, sock, submitted, done>>
pathVars == <<relative_path, no_fd, path_pc, create_result>>
writerVars == <<writer, staged>>
runnerVars == <<runner_pc, procs, limitter>>

bridgeVars == <<bridge, inbound, sent>>
waiterVars == <<status_waiters, undelivered, signalled>>
sessionVars == <<version, sem_released>>
commandVars == <<commands>>

vars == <<listenerVars, bufferVars, pathVars, writerVars, runnerVars, bridgeVars, waiterVars, sessionVars, commandVars>>

\* ------------------------------------------------------------------------
\* counting_semaphore and listener
\* ------------------------------------------------------------------------
Sessions == 1..MaxSessions

\* the initial value the listener gives the eventfd
listener_sem_count_whole(mc) == mc

listener_sem_count(mc) == mc - 1

\* eventfd(count, EFD_SEMAPHORE): the counter starts at count
counting_semaphore(count) == count

\* a read of an EFD_SEMAPHORE eventfd takes one unit and needs one
eventfd_readable(c) == c > 0

eventfd_read(c) == c - 1

\* a semaphore_object that goes without writing to the eventfd
semaphore_object_release_nothing(c) == c

\* ~semaphore_object: asio::write of the 8-byte value 1
semaphore_object_release(c) == c + 1

NextSession == IF \E s \in Sessions : session[s] = "none"
               THEN CHOOSE s \in Sessions : session[s] = "none" /\ \A t \in Sessions : t < s => session[t] # "none"
               ELSE 0

ActiveSessions == {s \in Sessions : session[s] = "active"}

ListenerStart ==
    /\ max_connections \in 1..MaxConn
    /\ des = counting_semaphore(listener_sem_count(max_connections))
    /\ listener_pc = "accept"
    /\ session = [s \in Sessions |-> "none"]
    /\ sem_read = 0

\* async_accept completes: the bridge is constructed with a fresh
\* semaphore_object (whose constructor starts the eventfd read) and starts
\* reading its socket at once; the listener stays suspended until the
\* semaphore_object's handler calls it.
Accept ==
    /\ listener_pc = "accept"
    /\ NextSession # 0
    /\ session' = [session EXCEPT ![NextSession] = "active"]
    /\ sem_read' = NextSession
    /\ listener_pc' = "semaphore"
    /\ UNCHANGED <<max_connections, des>>

\* the eventfd read of the pending semaphore_object completes: f() resumes
\* the listener, which issues the next async_accept
SemaphoreAcquired ==
    /\ sem_read # 0
    /\ eventfd_readable(des)
    /\ des' = eventfd_read(des)
    /\ sem_read' = 0
    /\ listener_pc' = "accept"
    /\ UNCHANGED <<max_connections, session>>

\* the last owner of a session's semaphore_object goes away
SessionEnd(s) ==
    /\ session[s] = "active"
    /\ session' = [session EXCEPT ![s] = "ended"]
    /\ des' = semaphore_object_release(des)
    /\ UNCHANGED <<max_connections, listener_pc, sem_read>>

\* ------------------------------------------------------------------------
\* tcp::socket, as far as writes go
\* ------------------------------------------------------------------------
\* wrote: the gathered writes handed to the socket, in the order of the
\* async_write calls; outstanding: the writes that have not completed yet,
\* each with the buffer whose on_wrote is bound to its completion
\* peer: "open", or "closed" once the peer has disconnected; failed: the
\* buffers of the writes issued after that, which complete with an error
tcp_socket == [wrote |-> <<>>, outstanding |-> <<>>, peer |-> "open", failed |-> <<>>]

\* a write on a disconnected socket that is dropped without its completion
\* handler ever being called
async_write_dropped(sk, owner, b) ==
    IF sk.peer = "open"
    THEN [sk EXCEPT !.wrote = Append(@, b),
                    !.outstanding = Append(@, [owner |-> owner, b |-> b])]
    ELSE [sk EXCEPT !.failed = Append(@, b)]

\* asio::async_write: the completion handler is called when the write is
\* over, with or without an error
async_write(sk, owner, b) ==
    IF sk.peer = "open"
    THEN [sk EXCEPT !.wrote = Append(@, b),
                    !.outstanding = Append(@, [owner |-> owner, b |-> b])]
    ELSE [sk EXCEPT !.failed = Append(@, b),
                    !.outstanding = Append(@, [owner |-> owner, b |-> b])]

RECURSIVE Flatten(_)
Flatten(ss) == IF ss = <<>> THEN <<>> ELSE Head(ss) \o Flatten(Tail(ss))

\* the frames on the wire, in order
Wire(sk) == Flatten(sk.wrote)

RemoveAt(q, i) == SubSeq(q, 1, i - 1) \o SubSeq(q, i + 1, Len(q))

\* ------------------------------------------------------------------------
\* socket_write_buffer
\* ------------------------------------------------------------------------
\* the constructor; self stands for the object's identity (shared_from_this)
socket_write_buffer(self) ==
    [self |-> self,
     front_handlers |-> <<>>, back_handlers |-> <<>>,
     front_buf |-> <<>>, back_buf |-> <<>>,
     writing |-> FALSE]

\* flush without the test of writing
flush_unguarded(io) ==
    [buf |-> [io.buf EXCEPT !.front_handlers = io.buf.back_handlers,
                            !.front_buf = io.buf.back_buf,
                            !.back_buf = <<>>,
                            !.back_handlers = <<>>,
                            !.writing = TRUE],
     sock |-> async_write(io.sock, io.buf.self, io.buf.back_buf)]

\* io is a buffer together with the socket it holds
flush(io) ==
    IF ~io.buf.writing
    THEN [buf |-> [io.buf EXCEPT !.front_handlers = io.buf.back_handlers,
                                 !.front_buf = io.buf.back_buf,
                                 !.back_buf = <<>>,
                                 !.back_handlers = <<>>,
                                 !.writing = TRUE],
          sock |-> async_write(io.sock, io.buf.self, io.buf.back_buf)]
    ELSE io

\* async_write_command putting the new frame before the waiting ones
async_write_command_front(io, frame, handler) ==
    flush([io EXCEPT !.buf.back_buf = <<frame>> \o @,
                     !.buf.back_handlers = <<handler>> \o @])

async_write_command(io, frame, handler) ==
    flush([io EXCEPT !.buf.back_buf = Append(@, frame),
                     !.buf.back_handlers = Append(@, handler)])

\* What a handler hands to async_write_command of the buffer that invokes
\* it: a sequence of [frame, handler].  A "chain" handler submits one more
\* frame from inside the callback.
ChainedFrame(h) == [id |-> -h.id, cmd |-> "Chained"]

\* the frames program_runner itself writes
ControlStart == [cmd |-> "Control", data |-> "Start", src |-> 0]
ControlFinish == [cmd |-> "Control", data |-> "Finish", src |-> 0]

\* The handlers of program_runner's own frames are the coroutine itself: after
\* ExitCode or Signal is written it goes on to write Control: Finish, from
\* inside the callback.
handler_submits(h) ==
    IF h.k = "chain"
    THEN << [frame |-> ChainedFrame(h), handler |-> [k |-> "plain", id |-> -h.id]] >>
    ELSE IF h.k = "status_written"
    THEN << [frame |-> ControlFinish, handler |-> [k |-> "finish_written"]] >>
    ELSE <<>>

RECURSIVE SubmitAll(_, _)
SubmitAll(io, subs) ==
    IF subs = <<>> THEN io
    ELSE SubmitAll(async_write_command(io, Head(subs).frame, Head(subs).handler), Tail(subs))

\* for (const auto &x: front_handlers) x();
RECURSIVE invoke_front_handlers(_, _)
invoke_front_handlers(io, hs) ==
    IF hs = <<>> THEN io
    ELSE invoke_front_handlers(SubmitAll(io, handler_submits(Head(hs))), Tail(hs))

\* on_wrote that forgets the frames queued during the write
on_wrote_no_reflush(io) ==
    LET called == invoke_front_handlers(io, io.buf.front_handlers)
    IN  [called EXCEPT !.buf.writing = FALSE,
                       !.buf.front_buf = <<>>,
                       !.buf.front_handlers = <<>>]

on_wrote(io) ==
    LET called == invoke_front_handlers(io, io.buf.front_handlers)
        cleared == [called EXCEPT !.buf.writing = FALSE,
                                  !.buf.front_buf = <<>>,
                                  !.buf.front_handlers = <<>>]
    IN  IF cleared.buf.back_handlers # <<>> THEN flush(cleared) ELSE cleared

\* ---- a buffer with producers around it --------------------------------
FrameIds == (1..MaxFrames) \cup {-i : i \in 1..MaxFrames}

BufferIdle ==
    /\ sockbuf = socket_write_buffer(<<0, 0>>)
    /\ sock = tcp_socket
    /\ submitted = <<>>
    /\ done = [i \in FrameIds |-> 0]

\* a producer calls async_write_command; k says what its handler will do
Submit(k) ==
    /\ Len(submitted) < MaxFrames
    /\ LET id == Len(submitted) + 1
           frame == [id |-> id, cmd |-> "Frame"]
           io == async_write_command([buf |-> sockbuf, sock |-> sock], frame, [k |-> k, id |-> id])
       IN  /\ sockbuf' = io.buf
           /\ sock' = io.sock
           /\ submitted' = Append(submitted, frame)
    /\ UNCHANGED done

RECURSIVE ChainedBy(_)
ChainedBy(hs) ==
    IF hs = <<>> THEN <<>>
    ELSE [i \in 1..Len(handler_submits(Head(hs))) |-> handler_submits(Head(hs))[i].frame]
         \o ChainedBy(Tail(hs))

\* the outstanding async_write completes and calls on_wrote
WriteCompleted ==
    /\ sock.outstanding # <<>>
    /\ LET w == Head(sock.outstanding)
           io == on_wrote([buf |-> sockbuf, sock |-> [sock EXCEPT !.outstanding = Tail(@)]])
       IN  /\ sockbuf' = io.buf
           /\ sock' = io.sock
           /\ done' = [i \in FrameIds |->
                         done[i] + Cardinality({j \in 1..Len(sockbuf.front_handlers) :
                                                  sockbuf.front_handlers[j].id = i})]
           /\ submitted' = submitted \o ChainedBy(sockbuf.front_handlers)

ListenerIdle ==
    /\ max_connections = 1
    /\ des = 0
    /\ listener_pc = "accept"
    /\ session = [s \in Sessions |-> "none"]
    /\ sem_read = 0

\* ------------------------------------------------------------------------
\* program_writer::recursive_create_open_at
\* ------------------------------------------------------------------------
\* A string is a sequence of characters, a path below a directory a sequence
\* of names.  A filesystem fs is the directories and the files that exist
\* below the directory the call starts at.
PathChars == {"/", ".", "a"}

Strings(n) == UNION {[1..k -> PathChars] : k \in 0..n}

EmptyDir == [dirs |-> {}, files |-> {}]

\* boost::algorithm::split(dirs, filename, is_any_of("/")): every '/' ends a
\* piece, adjacent separators give empty pieces, "" gives one empty piece
RECURSIVE split(_, _)
split(str, piece) ==
    IF str = <<>> THEN <<piece>>
    ELSE IF Head(str) = "/" THEN <<piece>> \o split(Tail(str), <<>>)
    ELSE split(Tail(str), Append(piece, Head(str)))

Dot == <<".">>
DotDot == <<".", ".">>

\* ::openat(dir, name, O_WRONLY|O_CREAT|O_TRUNC|O_EXCL, filemode): the errno,
\* "none" on success
openat_create(fs, dir, name, nofd) ==
    IF name = <<>> THEN "ENOENT"
    ELSE IF name \in {Dot, DotDot} THEN "EEXIST"
    ELSE IF Append(dir, name) \in fs.dirs \cup fs.files THEN "EEXIST"
    ELSE IF nofd THEN "EMFILE"
    ELSE "none"

\* the return value of the call: fd is -1 or a descriptor (0 stands for any);
\* at is the directory the target was opened in and depth the number of
\* directory descriptors on the stack at that time
Failed(fs, errno) == [fd |-> -1, errno |-> errno, fs |-> fs, at |-> <<>>, depth |-> 0, target |-> <<>>]

open_target(fs, dirfds, depth, targetfile, nofd) ==
    LET dir == IF dirfds = <<>> THEN <<>> ELSE dirfds[Len(dirfds)]
        e == openat_create(fs, dir, targetfile, nofd)
    IN  IF e # "none" THEN Failed(fs, e)
        ELSE [fd |-> 0, errno |-> "none",
              fs |-> [fs EXCEPT !.files = @ \cup {Append(dir, targetfile)}],
              at |-> dir, depth |-> depth, target |-> Append(dir, targetfile)]

\* the loop over dirs without the test of an empty stack before the pop: the
\* descriptor then used is one above the starting directory
RECURSIVE walk_dirs_unchecked(_, _, _, _, _, _)
walk_dirs_unchecked(fs, dirs, dirfds, depth, targetfile, nofd) ==
    IF dirs = <<>> THEN open_target(fs, dirfds, depth, targetfile, nofd)
    ELSE LET x == Head(dirs) IN
         IF x = <<>> \/ x = Dot THEN walk_dirs_unchecked(fs, Tail(dirs), dirfds, depth, targetfile, nofd)
         ELSE IF x = DotDot
         THEN walk_dirs_unchecked(fs, Tail(dirs),
                                  IF dirfds = <<>> THEN <<>> ELSE SubSeq(dirfds, 1, Len(dirfds) - 1),
                                  depth - 1, targetfile, nofd)
         ELSE LET cur == IF dirfds = <<>> THEN <<>> ELSE dirfds[Len(dirfds)]
                  p == Append(cur, x)
                  made == IF p \in fs.dirs \cup fs.files THEN fs
                          ELSE [fs EXCEPT !.dirs = @ \cup {p}]
              IN  IF p \notin made.dirs THEN Failed(made, "ENOTDIR")
                  ELSE IF nofd THEN Failed(made, "EMFILE")
                  ELSE walk_dirs_unchecked(made, Tail(dirs), Append(dirfds, p), depth + 1, targetfile, nofd)

\* for (auto &&x: dirs) { ... } followed by the open of the target
RECURSIVE walk_dirs(_, _, _, _, _, _)
walk_dirs(fs, dirs, dirfds, depth, targetfile, nofd) ==
    IF dirs = <<>> THEN open_target(fs, dirfds, depth, targetfile, nofd)
    ELSE LET x == Head(dirs) IN
         IF x = <<>> \/ x = Dot THEN walk_dirs(fs, Tail(dirs), dirfds, depth, targetfile, nofd)
         ELSE IF x = DotDot
         THEN \* errno is 0 or what the last mkdirat left: nothing a caller retries on
              IF dirfds = <<>> THEN Failed(fs, "unset")
              ELSE walk_dirs(fs, Tail(dirs), SubSeq(dirfds, 1, Len(dirfds) - 1),
                             depth - 1, targetfile, nofd)
         ELSE LET cur == IF dirfds = <<>> THEN <<>> ELSE dirfds[Len(dirfds)]
                  p == Append(cur, x)
                  \* ::mkdirat, its failure ignored
                  made == IF p \in fs.dirs \cup fs.files THEN fs
                          ELSE [fs EXCEPT !.dirs = @ \cup {p}]
              IN  \* ::openat(..., O_DIRECTORY|O_PATH|O_RDWR)
                  IF p \notin made.dirs THEN Failed(made, "ENOTDIR")
                  ELSE IF nofd THEN Failed(made, "EMFILE")
                  ELSE walk_dirs(made, Tail(dirs), Append(dirfds, p), depth + 1, targetfile, nofd)

\* errno is left as the caller had it when the first test returns
recursive_create_open_at(fs, filename, nofd) ==
    IF filename # <<>> /\ filename[1] = "/" THEN Failed(fs, "stale")
    ELSE LET dirs == split(filename, <<>>)
             targetfile == dirs[Len(dirs)]
         IN  walk_dirs(fs, SubSeq(dirs, 1, Len(dirs) - 1), <<>>, 0, targetfile, nofd)

\* ---- the call on its own ------------------------------------------------
EtcPasswd == <<"/", "e", "t", "c", "/", "p", "a", "s", "s", "w", "d">>
UpUpEtcPasswd == <<".", ".", "/", ".", ".", "/", "e", "t", "c", "/", "p", "a", "s", "s", "w", "d">>
AUpUpB == <<"a", "/", ".", ".", "/", ".", ".", "/", "b">>
ABC == <<"a", "/", "b", "/", "c">>
DotA == <<".", "/", "a">>
ABUpUpUpC == <<"a", "/", "b", "/", ".", ".", "/", ".", ".", "/", ".", ".", "/", "c">>

PathExamples == {EtcPasswd, UpUpEtcPasswd, AUpUpB, ABC, DotA, ABUpUpUpC}

PathIdle ==
    /\ relative_path = <<>>
    /\ no_fd = FALSE
    /\ path_pc = "call"
    /\ create_result = Failed(EmptyDir, "unset")

PathStart ==
    /\ relative_path \in Strings(MaxPathLen) \cup PathExamples
    /\ no_fd \in BOOLEAN
    /\ path_pc = "call"
    /\ create_result = Failed(EmptyDir, "unset")

\* recursive_create_open_at(at, relative_path, ...) on an empty directory
CreateUnder ==
    /\ path_pc = "call"
    /\ path_pc' = "returned"
    /\ create_result' = recursive_create_open_at(EmptyDir, relative_path, no_fd)
    /\ UNCHANGED <<relative_path, no_fd>>



\* ------------------------------------------------------------------------
\* program_writer
\* ------------------------------------------------------------------------
\* target_compiler.output_file, and the name mkdtemp gave the work directory
output_file == <<"a">>
unique_name == <<"w">>

StoreSlash == <<"s", "t", "o", "r", "e", "/">>

\* errno == EAGAIN || errno == EMFILE || errno == EWOULDBLOCK
Transient(errno) == errno \in {"EAGAIN", "EMFILE", "EWOULDBLOCK"}

\* The coroutine's fields, with the two directories it writes below:
\* workdir (the session's work directory) and storedir (the archive).
\* shortage: how many more opens fail for want of a descriptor;
\* archive_ok: whether the archive directory can be written.
program_writer(srcs, shortage, archive_ok) ==
    [pc |-> "start", sources |-> srcs,
     current_source |-> [filename |-> <<>>, client |-> <<>>],
     workdir |-> EmptyDir, storedir |-> EmptyDir,
     shortage |-> shortage, archive_ok |-> archive_ok, made |-> {}]

\* the while (true) loop around the open of store/<filename>, up to its yield;
\* made collects what was created, for the history
open_store(w) ==
    LET r == recursive_create_open_at(w.workdir, StoreSlash \o w.current_source.filename,
                                      w.shortage > 0)
    IN  IF r.fd = -1
        THEN IF Transient(r.errno)
             THEN [w EXCEPT !.pc = "retry", !.workdir = r.fs, !.shortage = @ - 1]
             ELSE [w EXCEPT !.pc = "ended", !.workdir = r.fs]
        ELSE [w EXCEPT !.pc = "store_write", !.workdir = r.fs,
                       !.made = @ \cup {[client |-> w.current_source.client, path |-> r.target]}]

\* while (!sources.empty()) { ... }, then the hand-over to program_runner
stage_loop(w) ==
    IF w.sources = <<>> THEN [w EXCEPT !.pc = "runner"]
    ELSE LET client == Head(w.sources)
             filename == IF client = <<>> THEN output_file ELSE client
         IN  open_store([w EXCEPT !.sources = Tail(@),
                                  !.current_source = [filename |-> filename, client |-> client]])

\* after the write below store/ is over: the archival copy
archive_copy(w) ==
    LET r == recursive_create_open_at(w.storedir,
                                      unique_name \o <<"/">> \o w.current_source.filename,
                                      ~w.archive_ok)
    IN  IF r.fd = -1 THEN stage_loop([w EXCEPT !.storedir = r.fs])
        ELSE [w EXCEPT !.pc = "archive_write", !.storedir = r.fs]

ClientNames == Strings(MaxNameLen)

SourceLists ==
    {<<f>> : f \in ClientNames}
        \cup {l \in ClientNames \X ClientNames : l[1] # l[2]}

WriterIdle ==
    /\ writer = program_writer(<<>>, 0, TRUE)
    /\ staged = {}

WriterStart ==
    /\ \E srcs \in SourceLists, shortage \in 0..1, ok \in BOOLEAN :
          writer = program_writer(srcs, shortage, ok)
    /\ staged = {}

\* program_writer(...)() called by the bridge
WriterRun ==
    /\ writer.pc = "start"
    /\ writer' = stage_loop(writer)
    /\ staged' = writer'.made

\* a signal wakes the coroutine waiting to retry the open
WriterRetry ==
    /\ writer.pc = "retry"
    /\ writer' = open_store(writer)
    /\ staged' = writer'.made

\* a signal wakes the coroutine and the aio_write below store/ is over
StoreWritten ==
    /\ writer.pc = "store_write"
    /\ writer' = archive_copy(writer)
    /\ staged' = writer'.made

\* a signal wakes the coroutine and the aio_write of the archival copy is over
ArchiveWritten ==
    /\ writer.pc = "archive_write"
    /\ writer' = stage_loop(writer)
    /\ staged' = writer'.made


\* ------------------------------------------------------------------------
\* program_runner
\* ------------------------------------------------------------------------
\* jail.output_limit_warn and jail.output_limit_kill
output_limit_warn == 1
output_limit_kill == 2

\* std::numeric_limits<size_t>::max(), at the model's width
SizeMax == 7

\* the lengths a read of a pipe may return (at most BUFSIZ)
ChunkLens == {1, 3}

\* the two command_types: stdout_command and stderr_command of each phase
OutCommand(phase, s) ==
    IF phase = 1 THEN (IF s = 1 THEN "CompilerMessageS" ELSE "CompilerMessageE")
    ELSE (IF s = 1 THEN "StdOut" ELSE "StdErr")

\* how many commands the deque holds
NPhases == 2

\* ---- write_limit_counter ------------------------------------------------
write_limit_counter(soft_limit, hard_limit) ==
    [soft_limit |-> soft_limit, hard_limit |-> hard_limit, current |-> 0, proc |-> 0]

set_process(l, proc) == [l EXCEPT !.proc = proc]

\* the counter after add(len)
add_current(l, len) ==
    IF SizeMax - len < l.current THEN SizeMax ELSE l.current + len

\* the signal add() sends after counting, "none" for none
add_signal(l) ==
    IF l.hard_limit < l.current THEN "SIGKILL"
    ELSE IF l.soft_limit < l.current THEN "SIGXFSZ"
    ELSE "none"

\* ---- the forwarders of one child ----------------------------------------
\* output_forwarder: pc is "reading" (async_read_some pending), "writing" (its
\* frame is with its own sockbuf), "posted" (pipe closed, handler posted) or
\* "closed" (the posted handler has run)
output_forwarder(c, s) ==
    [pc |-> "reading", sockbuf |-> socket_write_buffer(<<c, s>>)]

\* the forwarder that has gone on to its next read with its frame unwritten
forward_chunk_without_yield(f, b) == [f EXCEPT !.sockbuf = b]

\* yield { sockbuf->async_write_command(command, move(t), ref(*this)); ... }:
\* the forwarder waits for the write of its frame, b being its sockbuf after
\* async_write_command
forward_chunk(f, b) == [f EXCEPT !.pc = "writing", !.sockbuf = b]

output_closed(f) == f.pc \in {"posted", "closed"}

\* piped_spawn and the four forwarders made from it.  proc is the process:
\* "running", or how it ended ("exit0", "exit1", "signaled"); finished is
\* pid.finished(); signals are the signals sent to it, each with its sender;
\* forwarded counts the bytes of its output read so far; timer is the
\* continuation that waits on kill_timer for this child.
new_child(c, phase) ==
    [phase |-> phase,
     proc |-> "running",
     finished |-> FALSE,
     stdin |-> "writing",
     out |-> <<output_forwarder(c, 1), output_forwarder(c, 2)>>,
     signals |-> {},
     forwarded |-> 0,
     chunks |-> 0,
     expired |-> 0,
     timer |-> [stage |-> "soft", st |-> "armed"]]

\* the signal sent whether the child has been reaped or not
kill_unchecked(ch, signo, by) == [ch EXCEPT !.signals = @ \cup {[sig |-> signo, by |-> by]}]

\* status_forwarder::kill
kill(ch, signo, by) ==
    IF ~ch.finished THEN [ch EXCEPT !.signals = @ \cup {[sig |-> signo, by |-> by]}]
    ELSE ch

WIFEXITED(status) == status \in {"exit0", "exit1"}
WIFSIGNALED(status) == status = "signaled"

\* kill_timer->cancel() and the cancelling part of expires_from_now(): every
\* wait still pending completes with operation_aborted; a wait whose timer has
\* already expired is not touched
cancel_waits(ps) ==
    [c \in 1..Len(ps) |->
        IF ps[c].timer.st = "armed" THEN [ps[c] EXCEPT !.timer.st = "aborted"] ELSE ps[c]]

\* std::all_of(pipes.begin(), pipes.end(), closed)
all_closed(ch) ==
    /\ ch.stdin = "closed"
    /\ output_closed(ch.out[1])
    /\ output_closed(ch.out[2])
    /\ ch.finished

\* piped_spawn either starts the child or fails with SpawnError
piped_spawn(ok) == IF ok THEN "ChildHandle" ELSE "SpawnError"

\* ---- the coroutine ------------------------------------------------------
\* r is the runner's state: procs, limitter, sockbuf and sock.
\* One turn of the while loop from its top to the wait on kill_timer: spawn,
\* the four forks, expires_from_now and async_wait.
\* With ok false piped_spawn fails: the error leaves operator(), the handler
\* that called it, io_service::run and main, none of which catches it, and the
\* process is gone ("spawn_failed").
spawn_phase(r, phase, ok) ==
    LET c == Len(r.procs) + 1 IN
    IF piped_spawn(ok) = "SpawnError"
    THEN [r EXCEPT !.pc = "spawn_failed"]
    ELSE [r EXCEPT !.limitter = set_process(@, c),
                   !.procs = Append(cancel_waits(@), new_child(c, phase))]

\* the frames after the loop: ExitCode or Signal
write_status(r, laststatus) ==
    LET io == [buf |-> r.sockbuf, sock |-> r.sock]
        wrote == IF WIFEXITED(laststatus)
                 THEN async_write_command(io, [cmd |-> "ExitCode", data |-> laststatus, src |-> 0],
                                          [k |-> "status_written"])
                 ELSE async_write_command(io, [cmd |-> "Signal", data |-> laststatus, src |-> 0],
                                          [k |-> "status_written"])
    IN  [r EXCEPT !.sockbuf = wrote.buf, !.sock = wrote.sock]

\* wait_process_killed: what a forked copy does when its forwarder calls it.
\* The copy holds the pipes of child c and the commands left after c's phase.
wait_process_killed(r, c, ok) ==
    IF ~all_closed(r.procs[c]) THEN r
    ELSE LET cancelled == [r EXCEPT !.procs = cancel_waits(@)]
             laststatus == r.procs[c].proc
         IN  IF laststatus = "exit0" /\ r.procs[c].phase < NPhases
             THEN spawn_phase(cancelled, r.procs[c].phase + 1, ok)
             ELSE write_status(cancelled, laststatus)

\* what has happened in the session: children spawned and ended, chunks of
\* output arrived, kill_timer expired
EventsOf(ps) ==
    LET n[c \in 0..Len(ps)] ==
            IF c = 0 THEN 0
            ELSE n[c - 1] + 1 + ps[c].chunks + ps[c].expired
                          + (IF ps[c].proc # "running" THEN 1 ELSE 0)
    IN  n[Len(ps)]

Events == EventsOf(procs)

Runner == [pc |-> runner_pc, procs |-> procs, limitter |-> limitter,
           sockbuf |-> sockbuf, sock |-> sock]

SetRunner(r) ==
    /\ EventsOf(r.procs) <= MaxEvents
    /\ runner_pc' = r.pc
    /\ procs' = r.procs
    /\ limitter' = r.limitter
    /\ sockbuf' = r.sockbuf
    /\ sock' = r.sock

RunnerIdle ==
    /\ runner_pc = "constructed"
    /\ procs = <<>>
    /\ limitter = write_limit_counter(output_limit_warn, output_limit_kill)

Children == 1..Len(procs)

\* program_runner(...)(): the commands are built and Control: Start is written
RunnerStart ==
    /\ runner_pc = "constructed"
    /\ runner_pc' = "running"
    /\ LET io == async_write_command([buf |-> sockbuf, sock |-> sock], ControlStart,
                                     [k |-> "start_written"])
       IN  sockbuf' = io.buf /\ sock' = io.sock
    /\ UNCHANGED <<procs, limitter>>

HasHandler(hs, k) == \E i \in 1..Len(hs) : hs[i].k = k

\* a write of program_runner's sockbuf completes: on_wrote, whose handlers
\* resume the coroutine (after Control: Start it enters the loop)
RunnerWritten(i, ok) ==
    /\ runner_pc = "running"
    /\ i \in 1..Len(sock.outstanding)
    /\ sock.outstanding[i].owner = <<0, 0>>
    /\ LET io == on_wrote([buf |-> sockbuf, sock |-> [sock EXCEPT !.outstanding = RemoveAt(@, i)]])
           r == [Runner EXCEPT !.sockbuf = io.buf, !.sock = io.sock]
       IN  IF HasHandler(sockbuf.front_handlers, "start_written")
           THEN SetRunner(spawn_phase(r, 1, ok))
           ELSE SetRunner(r)

\* the write of an output_forwarder's sockbuf completes: on_wrote resumes the
\* forwarder, which issues its next read
ForwarderWritten(i) ==
    /\ runner_pc = "running"
    /\ i \in 1..Len(sock.outstanding)
    /\ sock.outstanding[i].owner # <<0, 0>>
    /\ LET c == sock.outstanding[i].owner[1]
           s == sock.outstanding[i].owner[2]
           io == on_wrote([buf |-> procs[c].out[s].sockbuf,
                           sock |-> [sock EXCEPT !.outstanding = RemoveAt(@, i)]])
       IN  /\ procs' = [procs EXCEPT ![c].out[s] = [pc |-> "reading", sockbuf |-> io.buf]]
           /\ sock' = io.sock
    /\ UNCHANGED <<runner_pc, limitter, sockbuf>>

\* output_forwarder::operator(): a read of len bytes completes; the chunk goes
\* to the forwarder's sockbuf and its length to the limiter; the chunk is
\* numbered as the child's reads are
ReadChunk(c, s, len) ==
    /\ runner_pc = "running"
    /\ c \in Children
    /\ procs[c].out[s].pc = "reading"
    /\ Events < MaxEvents
    /\ LET io == async_write_command([buf |-> procs[c].out[s].sockbuf, sock |-> sock],
                                     [cmd |-> OutCommand(procs[c].phase, s), data |-> procs[c].chunks + 1, src |-> c],
                                     [k |-> "forwarder"])
           counted == [limitter EXCEPT !.current = add_current(limitter, len)]
           signo == add_signal(counted)
           fwd == [procs EXCEPT ![c].out[s] = forward_chunk(@, io.buf),
                                ![c].forwarded = @ + len,
                                ![c].chunks = @ + 1]
       IN  /\ sock' = io.sock
           /\ limitter' = counted
           /\ procs' = IF signo # "none" /\ counted.proc # 0
                       THEN [fwd EXCEPT ![counted.proc] = kill(@, signo, "limit")]
                       ELSE fwd
    /\ UNCHANGED <<runner_pc, sockbuf>>

\* output_forwarder::operator(): the read fails (end of file, once the child
\* that holds the other end is gone): the pipe is closed and the handler posted
ReadEnd(c, s) ==
    /\ runner_pc = "running"
    /\ c \in Children
    /\ procs[c].out[s].pc = "reading"
    /\ procs[c].proc # "running"
    /\ procs' = [procs EXCEPT ![c].out[s].pc = "posted"]
    /\ UNCHANGED <<runner_pc, limitter, sockbuf, sock>>

\* the posted handler of an output_forwarder runs
ForwarderHandler(c, s, ok) ==
    /\ runner_pc = "running"
    /\ c \in Children
    /\ procs[c].out[s].pc = "posted"
    /\ SetRunner(wait_process_killed([Runner EXCEPT !.procs[c].out[s].pc = "closed"], c, ok))

\* input_forwarder::on_wrote
StdinWritten(c, ok) ==
    /\ runner_pc = "running"
    /\ c \in Children
    /\ procs[c].stdin = "writing"
    /\ SetRunner(wait_process_killed([Runner EXCEPT !.procs[c].stdin = "closed"], c, ok))

\* status_forwarder::wait_handler after SIGCHLD, with the child gone:
\* wait_nonblock collects its status (while the child runs the handler only
\* waits again, which changes nothing)
StatusWake(c, ok) ==
    /\ runner_pc = "running"
    /\ c \in Children
    /\ ~procs[c].finished
    /\ procs[c].proc # "running"
    /\ SetRunner(wait_process_killed([Runner EXCEPT !.procs[c].finished = TRUE], c, ok))

\* the child ends: by exit, or by a signal
ChildEnds(c, how) ==
    /\ runner_pc = "running"
    /\ c \in Children
    /\ procs[c].proc = "running"
    /\ Events < MaxEvents
    /\ procs' = [procs EXCEPT ![c].proc = how]
    /\ UNCHANGED <<runner_pc, limitter, sockbuf, sock>>

\* the peer disconnects: the writes on the socket fail from now on
PeerDisconnect ==
    /\ runner_pc = "running"
    /\ sock.peer = "open"
    /\ sock' = [sock EXCEPT !.peer = "closed"]
    /\ UNCHANGED <<runner_pc, procs, limitter, sockbuf>>

\* kill_timer expires: the pending wait completes without error
TimerExpires(c) ==
    /\ runner_pc = "running"
    /\ c \in Children
    /\ procs[c].timer.st = "armed"
    /\ Events < MaxEvents
    /\ procs' = [procs EXCEPT ![c].timer.st = "fired", ![c].expired = @ + 1]
    /\ UNCHANGED <<runner_pc, limitter, sockbuf, sock>>

\* the continuation waiting on kill_timer for child c is called without error.
\* (A continuation called with operation_aborted ends at `if (ec) yield break`
\* and changes nothing: "aborted" is where it rests.)
TimerHandler(c) ==
    /\ runner_pc = "running"
    /\ c \in Children
    /\ procs[c].timer.st = "fired"
    /\ procs' =
         IF procs[c].timer.stage = "soft"
         THEN LET killed == [procs EXCEPT ![c] = kill(@, "SIGXCPU", "timer")]
              IN  [cancel_waits(killed) EXCEPT ![c].timer = [stage |-> "hard", st |-> "armed"]]
         ELSE [procs EXCEPT ![c] = kill([@ EXCEPT !.timer.st = "ended"], "SIGKILL", "timer")]
    /\ UNCHANGED <<runner_pc, limitter, sockbuf, sock>>

\* ------------------------------------------------------------------------
\* compiler_bridge
\* ------------------------------------------------------------------------
\* A string is a sequence of characters.
CONTROL == <<"C", "o", "n", "t", "r", "o", "l">>
VERSION == <<"V", "e", "r", "s", "i", "o", "n">>
SOURCEFILENAME == <<"S", "o", "u", "r", "c", "e", "F", "i", "l", "e", "N", "a", "m", "e">>
SOURCE == <<"S", "o", "u", "r", "c", "e">>
RUN == <<"r", "u", "n">>
COMPILER_EQ == <<"c", "o", "m", "p", "i", "l", "e", "r", "=">>

\* qi::space, qi::digit and the hexadecimal digits, as far as the alphabet goes
Space == {" ", "\n", "\r", "\t"}
Digits == <<"0", "1", "2", "3", "4", "5", "6", "7", "8", "9">>
IsDigit(ch) == \E d \in 1..10 : Digits[d] = ch
DigitValue(ch) == (CHOOSE d \in 1..10 : Digits[d] = ch) - 1

\* how far a run of characters of the set (or outside it) goes from position i
\* (member tells whether the run is of characters of the set or of others)
RunOf(str, i, chars, member) ==
    CHOOSE k \in 0..(Len(str) - i + 1) :
        /\ \A j \in i..(i + k - 1) : (str[j] \in chars) = member
        /\ i + k <= Len(str) => (str[i + k] \in chars) # member

RECURSIVE DecimalValue(_)
DecimalValue(ds) ==
    IF ds = <<>> THEN 0
    ELSE 10 * DecimalValue(SubSeq(ds, 1, Len(ds) - 1)) + DigitValue(ds[Len(ds)])

\* std::to_string of a length
RECURSIVE to_string(_)
to_string(n) ==
    IF n < 10 THEN <<Digits[n + 1]>>
    ELSE to_string(n \div 10) \o <<Digits[(n % 10) + 1]>>

\* quoted_printable::decode: "=" and two hexadecimal digits stand for the byte
\* of that value, every other character for itself
HexByte(h) == IF h = <<"4", "1">> THEN "A"
              ELSE IF h = <<"3", "D">> THEN "="
              ELSE "?"
IsHex(ch) == IsDigit(ch) \/ ch \in {"A", "B", "C", "D", "E", "F"}

RECURSIVE qp_decode(_)
qp_decode(data) ==
    IF data = <<>> THEN <<>>
    ELSE IF Head(data) = "=" /\ Len(data) >= 3 /\ IsHex(data[2]) /\ IsHex(data[3])
    THEN <<HexByte(SubSeq(data, 2, 3))>> \o qp_decode(SubSeq(data, 4, Len(data)))
    ELSE <<Head(data)>> \o qp_decode(Tail(data))

\* the qi::parse call of line 711 on the buffer from position ite + 1:
\*   +(char_ - space) >> *space >> int_ >> ':' >> repeat(len)[char_] >> eol
\* with eol an optional CR and an optional LF, one of them at least.
\* A match gives the command, the data and the position after the frame; the
\* iterator does not move when there is none.  It matches only with the
\* whole frame in the buffer; need_eol tells whether the end of line is asked for.
parse_frame_to(buf, ite, need_eol) ==
    LET c1 == ite + 1
        nc == RunOf(buf, c1, Space, FALSE)
        s1 == c1 + nc
        ns == RunOf(buf, s1, Space, TRUE)
        d1 == s1 + ns
        nd == RunOf(buf, d1, {Digits[d] : d \in 1..10}, TRUE)
        len == DecimalValue(SubSeq(buf, d1, d1 + nd - 1))
        colon == d1 + nd
        p1 == colon + 1
        e1 == p1 + len
        cr == IF e1 <= Len(buf) /\ buf[e1] = "\r" THEN 1 ELSE 0
        lf == IF e1 + cr <= Len(buf) /\ buf[e1 + cr] = "\n" THEN 1 ELSE 0
        matched == /\ nc >= 1
                   /\ nd >= 1
                   /\ colon <= Len(buf) /\ buf[colon] = ":"
                   /\ e1 - 1 <= Len(buf)
                   /\ need_eol => cr + lf >= 1
    IN  IF matched
        THEN [ok |-> TRUE, command |-> SubSeq(buf, c1, c1 + nc - 1),
              data |-> SubSeq(buf, p1, e1 - 1), ite |-> e1 + cr + lf - 1]
        ELSE [ok |-> FALSE, command |-> <<>>, data |-> <<>>, ite |-> ite]

parse_frame_without_eol(buf, ite) == parse_frame_to(buf, ite, FALSE)

parse_frame(buf, ite) == parse_frame_to(buf, ite, TRUE)

\* std::unordered_map<std::string, std::string>: m[k] and m[k] += v
MapGet(m, k) == IF k \in DOMAIN m THEN m[k] ELSE <<>>
MapAppend(m, k, v) ==
    IF k \in DOMAIN m THEN [m EXCEPT ![k] = @ \o v] ELSE m @@ (k :> v)

EmptyMap == [k \in {} |-> <<>>]

\* config.compilers, by name
ConfiguredCompilers == {<<"g">>}

\* qi::parse(ite, s.end(), "compiler=" >> *qi::char_, ccname)
parse_ccname(s) ==
    IF Len(s) >= Len(COMPILER_EQ) /\ SubSeq(s, 1, Len(COMPILER_EQ)) = COMPILER_EQ
    THEN SubSeq(s, Len(COMPILER_EQ) + 1, Len(s))
    ELSE <<>>

\* the constructor.  pc is where the coroutine is: "reading" (async_read_some
\* pending), "closed" (it returned after sock->close), "program_writer" or
\* "version_sender" (it returned into that object).  decoded lists the frames
\* the parser has matched and started the objects the session was handed to;
\* ccname is the name looked up at Control: run.
compiler_bridge ==
    [pc |-> "reading", buf |-> <<>>, received |-> EmptyMap, sources |-> EmptyMap,
     current_filename |-> <<>>, decoded |-> <<>>, started |-> <<>>, ccname |-> <<>>]

\* lines 712-733 with SourceFileName appending to the current filename
dispatch_filename_appends(b, command, data) ==
    LET b1 == [b EXCEPT !.decoded = Append(@, [command |-> command, data |-> data])] IN
    IF command = CONTROL /\ data = RUN
    THEN LET ccname == parse_ccname(MapGet(b.received, CONTROL)) IN
         IF ccname \notin ConfiguredCompilers
         THEN [b1 EXCEPT !.pc = "closed", !.ccname = ccname]
         ELSE [b1 EXCEPT !.pc = "program_writer", !.ccname = ccname,
                         !.started = Append(@, "program_writer")]
    ELSE IF command = VERSION
    THEN [b1 EXCEPT !.pc = "version_sender", !.started = Append(@, "version_sender")]
    ELSE IF command = SOURCEFILENAME
    THEN [b1 EXCEPT !.current_filename = @ \o qp_decode(data)]
    ELSE IF command = SOURCE
    THEN [b1 EXCEPT !.sources = MapAppend(@, b.current_filename, qp_decode(data))]
    ELSE [b1 EXCEPT !.received = MapAppend(@, command, qp_decode(data))]

\* lines 712-733 for one matched frame
dispatch(b, command, data) ==
    LET b1 == [b EXCEPT !.decoded = Append(@, [command |-> command, data |-> data])] IN
    IF command = CONTROL /\ data = RUN
    THEN LET ccname == parse_ccname(MapGet(b.received, CONTROL)) IN
         IF ccname \notin ConfiguredCompilers
         THEN [b1 EXCEPT !.pc = "closed", !.ccname = ccname]
         ELSE [b1 EXCEPT !.pc = "program_writer", !.ccname = ccname,
                         !.started = Append(@, "program_writer")]
    ELSE IF command = VERSION
    THEN [b1 EXCEPT !.pc = "version_sender", !.started = Append(@, "version_sender")]
    ELSE IF command = SOURCEFILENAME
    THEN [b1 EXCEPT !.current_filename = qp_decode(data)]
    ELSE IF command = SOURCE
    THEN [b1 EXCEPT !.sources = MapAppend(@, b.current_filename, qp_decode(data))]
    ELSE [b1 EXCEPT !.received = MapAppend(@, command, qp_decode(data))]

\* the inner while loop going on after a frame that made the coroutine return
RECURSIVE parse_loop_past_commit(_, _)
parse_loop_past_commit(b, ite) ==
    LET p == parse_frame(b.buf, ite) IN
    IF ~p.ok THEN [b EXCEPT !.buf = SubSeq(@, ite + 1, Len(@))]
    ELSE parse_loop_past_commit(dispatch(b, p.command, p.data), p.ite)

\* the inner while loop: frames are parsed and dispatched until none matches
\* (the parsed part of the buffer is then erased) or one makes the coroutine
\* return (the buffer is left as it is)
RECURSIVE parse_loop(_, _)
parse_loop(b, ite) ==
    LET p == parse_frame(b.buf, ite) IN
    IF ~p.ok THEN [b EXCEPT !.buf = SubSeq(@, ite + 1, Len(@))]
    ELSE LET d == dispatch(b, p.command, p.data) IN
         IF d.pc # "reading" THEN d ELSE parse_loop(d, p.ite)

\* operator() resumed by async_read_some: with an error the socket is closed,
\* otherwise the bytes read are in the buffer and the frames in it are handled
compiler_bridge_read(b, ec, bytes) ==
    IF ec THEN [b EXCEPT !.pc = "closed"]
    ELSE parse_loop([b EXCEPT !.buf = @ \o bytes], 0)

\* ---- the client ---------------------------------------------------------
\* a frame as the client writes it: CMD SP LEN ":" DATA LF
Frame(f) == f.command \o <<" ">> \o to_string(Len(f.data)) \o <<":">> \o f.data \o <<"\n">>

\* the frames a client sends, DATA as on the wire
ClientFrames ==
    { [command |-> SOURCEFILENAME, data |-> <<"a">>],
      [command |-> SOURCE, data |-> <<"=", "4", "1">>],
      [command |-> CONTROL, data |-> COMPILER_EQ \o <<"g">>],
      [command |-> CONTROL, data |-> RUN],
      [command |-> VERSION, data |-> <<>>] }

FrameSeqs(n) == UNION {[1..k -> ClientFrames] : k \in 0..n}

RECURSIVE Bytes(_)
Bytes(fs) == IF fs = <<>> THEN <<>> ELSE Frame(Head(fs)) \o Bytes(Tail(fs))

BridgeIdle ==
    /\ bridge = compiler_bridge
    /\ inbound = <<>>
    /\ sent = <<>>

\* a connection whose client sends the frames fs
BridgeStart(fs) ==
    /\ bridge = compiler_bridge
    /\ sent = fs
    /\ inbound = Bytes(fs)

\* async_read_some completes with the next n bytes
BridgeRead(n) ==
    /\ bridge.pc = "reading"
    /\ n \in 1..Len(inbound)
    /\ bridge' = compiler_bridge_read(bridge, FALSE, SubSeq(inbound, 1, n))
    /\ inbound' = SubSeq(inbound, n + 1, Len(inbound))
    /\ UNCHANGED sent

\* async_read_some completes with the next k frames, whole
BridgeReadFrames(k) ==
    /\ k \in 1..Len(sent)
    /\ \E n \in 1..Len(inbound) :
          /\ Len(inbound) - n = Len(Bytes(SubSeq(sent, k + 1, Len(sent))))
          /\ BridgeRead(n)

\* async_read_some completes with an error: the peer has closed, all it sent
\* has been read
BridgeReadError ==
    /\ bridge.pc = "reading"
    /\ inbound = <<>>
    /\ bridge' = compiler_bridge_read(bridge, TRUE, <<>>)
    /\ UNCHANGED <<inbound, sent>>

\* ------------------------------------------------------------------------
\* status_forwarder and the signal set the sessions share
\* ------------------------------------------------------------------------
Waiters == 1..MaxWaiters

\* a status_forwarder over its child.  child: "running", "exited" (a zombie)
\* or "reaped" (pid.finished()); wait: "none" before async_forward, "armed"
\* with a wait queued on the signal set, "woken" with wait_handler posted,
\* "done" after the handler was called; on_exit counts the calls of the handler
status_forwarder == [child |-> "running", wait |-> "none", on_exit |-> 0]

\* unique_child_pid::wait_nonblock: reaps the child if it has exited
wait_nonblock(p) == IF p.child = "exited" THEN [p EXCEPT !.child = "reaped"] ELSE p

\* closed(): pid.finished()
closed(p) == p.child = "reaped"

\* signal_set::async_wait: a signal that no wait took is taken at once, else
\* the wait is queued
signal_async_wait(p, n) == [p EXCEPT !.wait = IF n > 0 THEN "woken" ELSE "armed"]
signal_taken(n) == IF n > 0 THEN n - 1 ELSE 0

\* the signal set on a signal: every queued wait completes; the signal is
\* kept if there is none
signal_deliver(ws) ==
    [w \in DOMAIN ws |-> IF ws[w].wait = "armed" THEN [ws[w] EXCEPT !.wait = "woken"] ELSE ws[w]]
signal_kept(ws, n) == IF \E w \in DOMAIN ws : ws[w].wait = "armed" THEN n ELSE n + 1

\* wait_handler on every wake, whether the child was reaped or not
wait_handler_on_every_wake(p, n) ==
    [wait_nonblock(p) EXCEPT !.wait = "done", !.on_exit = @ + 1]

\* wait_handler: reap; wait again if the child has not finished, else call
\* the handler
wait_handler(p, n) ==
    LET q == wait_nonblock(p) IN
    IF ~closed(q) THEN signal_async_wait(q, n)
    ELSE [q EXCEPT !.wait = "done", !.on_exit = @ + 1]

WaitersIdle ==
    /\ status_waiters = [w \in Waiters |-> status_forwarder]
    /\ undelivered = 0
    /\ signalled = 0

\* async_forward(handler)
AsyncForward(w) ==
    /\ status_waiters[w].wait = "none"
    /\ status_waiters' = [status_waiters EXCEPT ![w] = signal_async_wait(@, undelivered)]
    /\ undelivered' = signal_taken(undelivered)
    /\ UNCHANGED signalled

\* the child of w exits: SIGCHLD
WaiterChildExits(w) ==
    /\ status_waiters[w].child = "running"
    /\ status_waiters' = signal_deliver([status_waiters EXCEPT ![w].child = "exited"])
    /\ undelivered' = signal_kept(status_waiters, undelivered)
    /\ UNCHANGED signalled

\* a signal of the set that is of no child of these waiters: SIGHUP of an
\* archival write, SIGCHLD of another child
OtherSignal ==
    /\ signalled < MaxSignals
    /\ signalled' = signalled + 1
    /\ status_waiters' = signal_deliver(status_waiters)
    /\ undelivered' = signal_kept(status_waiters, undelivered)

\* the posted wait_handler runs
WaitHandler(w) ==
    /\ status_waiters[w].wait = "woken"
    /\ status_waiters' = [status_waiters EXCEPT ![w] = wait_handler(@, undelivered)]
    /\ undelivered' = IF closed(wait_nonblock(status_waiters[w])) THEN undelivered
                      ELSE signal_taken(undelivered)
    /\ UNCHANGED signalled

\* ------------------------------------------------------------------------
\* version_sender
\* ------------------------------------------------------------------------
\* config.compilers as the catalogue of the server: name, displayable and
\* version_command (an argv, empty or not) of each compiler, in the order of
\* the configuration
config_compilers ==
    << [name |-> <<"g">>, displayable |-> TRUE, version_command |-> <<"v">>] >>

\* compiler_trait(), the value of current before the loop
compiler_trait == [name |-> <<>>, displayable |-> FALSE, version_command |-> <<>>]

\* the constructor: commands holds the configured compilers.  pc is
\* "constructed", "wait" (waiting on the signal set for the child), "read"
\* (async_read_until on its stdout), "write" (VersionResult is with the
\* sockbuf), "ended", or "spawn_failed" (piped_spawn failed and its error
\* left operator()).  children are the children spawned so far, each with its
\* wait status and whether it wrote anything to its stdout; child is the
\* latest of them.  compilers is config.compilers.
version_sender(compilers) ==
    [pc |-> "constructed", compilers |-> compilers, commands |-> compilers,
     current |-> compiler_trait, child |-> 0, children |-> <<>>, versions |-> <<>>]

\* the while loop from its top: the commands that are not displayable or have
\* no version_command are passed over, the next one is spawned, or with none
\* left the loop is left for the write of VersionResult
RECURSIVE version_loop(_, _)
version_loop(v, ok) ==
    IF v.commands = <<>> THEN [v EXCEPT !.pc = "write"]
    ELSE LET current == Head(v.commands)
             v1 == [v EXCEPT !.current = current, !.commands = Tail(@)]
         IN  IF current.version_command = <<>> \/ ~current.displayable
             THEN version_loop(v1, ok)
             ELSE IF piped_spawn(ok) = "SpawnError"
             THEN [v1 EXCEPT !.pc = "spawn_failed"]
             ELSE [v1 EXCEPT !.pc = "wait",
                             !.children = Append(@, [name |-> current.name,
                                                     st |-> "running",
                                                     output |-> FALSE]),
                             !.child = Len(v.children) + 1]

\* after the loop on sigs->async_wait: a child that did not exit with status
\* 0 is passed over, else the first line of its output is read
version_exited(v, ok) ==
    LET st == v.children[v.child].st
    IN  IF ~WIFEXITED(st) \/ st # "exit0" THEN version_loop(v, ok)
        ELSE [v EXCEPT !.pc = "read"]

\* after async_read_until: getline fails when the child wrote nothing, and
\* the compiler is passed over; else its entry is appended to versions
version_line(v, ok) ==
    IF ~v.children[v.child].output THEN version_loop(v, ok)
    ELSE version_loop([v EXCEPT !.versions = Append(@, v.current.name)], ok)

\* "[" + join(versions, ",") + "]" as the payload of VersionResult; the
\* entries are kept as their sequence
VersionResult(versions) == [cmd |-> "VersionResult", data |-> versions, src |-> 0]

\* v with the socket it writes to; VersionResult goes to the sockbuf when the
\* loop is left
version_write(v, io) ==
    IF v.pc = "write"
    THEN async_write_command(io, VersionResult(v.versions), [k |-> "version_written"])
    ELSE io

\* ------------------------------------------------------------------------
\* the session and its semaphore_object
\* ------------------------------------------------------------------------
\* the handlers of a sockbuf; each is a copy of the coroutine that wrote
sockbuf_handlers(b) == Len(b.front_handlers) + Len(b.back_handlers)

\* a wait on kill_timer that holds nothing of the session
timer_holds_nothing(t) == 0

\* kill_timer->async_wait(strand->wrap(move(*this))): the wait holds the
\* coroutine until its handler has been called, also when it is cancelled
timer_holds(t) == IF t.st \in {"armed", "fired", "aborted"} THEN 1 ELSE 0

\* the copies of program_runner held for child c: by the write to its stdin,
\* by the handler of each output_forwarder (kept, then posted), by the wait
\* of the status_forwarder and by the wait on kill_timer
child_holds(ch) ==
    (IF ch.stdin = "writing" THEN 1 ELSE 0)
    + (IF ch.out[1].pc \in {"reading", "writing", "posted"} THEN 1 ELSE 0)
    + (IF ch.out[2].pc \in {"reading", "writing", "posted"} THEN 1 ELSE 0)
    + (IF ~ch.finished THEN 1 ELSE 0)
    + timer_holds(ch.timer)

RECURSIVE children_hold(_)
children_hold(ps) ==
    IF ps = <<>> THEN 0 ELSE child_holds(Head(ps)) + children_hold(Tail(ps))

\* the use count of the shared_ptr of the session's semaphore_object: the
\* coroutine objects alive, each with its semaphore member
use_count ==
    (IF bridge.pc = "reading" THEN 1 ELSE 0)
    + (IF writer.pc \in {"retry", "store_write", "archive_write"} THEN 1 ELSE 0)
    + (IF version.pc \in {"wait", "read"} THEN 1 ELSE 0)
    + sockbuf_handlers(sockbuf)
    + children_hold(procs)

\* ~semaphore_object writes 1 to the eventfd when the last owner goes
semaphore_object_destroyed ==
    sem_released' = IF use_count > 0 /\ use_count' = 0
                    THEN semaphore_object_release(sem_released)
                    ELSE sem_released

SessionIdle ==
    /\ version = version_sender(config_compilers)
    /\ sem_released = 0

\* the frames of the sessions: one that ends without a frame, one that asks
\* for a compiler that is not configured, a version listing, a program, and a
\* program under a name that cannot be staged
SessionStreams ==
    { <<>>,
      << [command |-> CONTROL, data |-> RUN] >>,
      << [command |-> VERSION, data |-> <<>>] >>,
      << [command |-> SOURCE, data |-> <<"a">>],
         [command |-> CONTROL, data |-> COMPILER_EQ \o <<"g">>],
         [command |-> CONTROL, data |-> RUN] >>,
      << [command |-> SOURCEFILENAME, data |-> <<".">>],
         [command |-> SOURCE, data |-> <<"a">>],
         [command |-> CONTROL, data |-> COMPILER_EQ \o <<"g">>],
         [command |-> CONTROL, data |-> RUN] >> }

\* for (auto&& t: sources) this->sources.emplace_back(...): the file names of
\* the map, in the order the unordered_map gives them
SourceOrders(m) ==
    {s \in [1..Cardinality(DOMAIN m) -> DOMAIN m] : \A i, j \in DOMAIN s : s[i] = s[j] => i = j}

\* program_writer woken by a signal, where it waits
writer_wake(w) ==
    IF w.pc = "retry" THEN open_store(w)
    ELSE IF w.pc = "store_write" THEN archive_copy(w)
    ELSE stage_loop(w)

\* the program_writer object after the handler has returned: once the
\* coroutine has ended or has handed the session over, nothing of it is left
\* (made, the history, apart)
writer_left(w) ==
    IF w.pc \in {"runner", "ended"}
    THEN [program_writer(<<>>, 0, TRUE) EXCEPT !.pc = w.pc, !.made = w.made]
    ELSE w

\* return program_runner(...)() at the end of program_writer
HandOver(w) ==
    IF w.pc = "runner" THEN RunnerStart ELSE UNCHANGED <<runner_pc, procs, limitter, sockbuf, sock>>

\* the bridge's read completes; at the commit point program_writer or
\* version_sender is constructed and called from inside the handler
SessionRead(k) ==
    /\ BridgeReadFrames(k)
    /\ IF bridge'.pc = "program_writer"
       THEN /\ \E srcs \in SourceOrders(bridge'.sources), shortage \in 0..1, ok \in BOOLEAN :
                  writer' = writer_left(stage_loop(program_writer(srcs, shortage, ok)))
            /\ staged' = writer'.made
            /\ HandOver(writer')
            /\ UNCHANGED version
       ELSE IF bridge'.pc = "version_sender"
       THEN /\ LET v == version_loop(version, TRUE)
                    io == version_write(v, [buf |-> sockbuf, sock |-> sock])
                IN  version' = v /\ sockbuf' = io.buf /\ sock' = io.sock
            /\ UNCHANGED <<writer, staged, runner_pc, procs, limitter>>
       ELSE UNCHANGED <<writer, staged, runner_pc, procs, limitter, sockbuf, sock, version>>
    /\ semaphore_object_destroyed

SessionReadError ==
    /\ BridgeReadError
    /\ UNCHANGED <<writer, staged, runner_pc, procs, limitter, sockbuf, sock, version>>
    /\ semaphore_object_destroyed

\* a signal wakes program_writer
SessionWriter ==
    /\ writer.pc \in {"retry", "store_write", "archive_write"}
    /\ writer' = writer_left(writer_wake(writer))
    /\ staged' = writer'.made
    /\ HandOver(writer')
    /\ UNCHANGED <<bridgeVars, version>>
    /\ semaphore_object_destroyed

\* version_sender(...)() at the commit point: the coroutine runs to its first
\* wait, or to the write of VersionResult
VersionStart(ok) ==
    /\ version.pc = "constructed"
    /\ LET v == version_loop(version, ok)
           io == version_write(v, [buf |-> sockbuf, sock |-> sock])
       IN  version' = v /\ sockbuf' = io.buf /\ sock' = io.sock
    /\ UNCHANGED <<bridgeVars, writerVars, runnerVars>>
    /\ semaphore_object_destroyed

\* the child of version_sender ends, having written to its stdout or not
VersionChildEnds(how, output) ==
    /\ version.pc = "wait"
    /\ version.children[version.child].st = "running"
    /\ version' = [version EXCEPT !.children[version.child].st = how,
                                  !.children[version.child].output = output]
    /\ UNCHANGED <<bridgeVars, writerVars, runnerVars, sockbuf, sock, sem_released>>

\* a signal wakes version_sender with its child gone: with exit status 0 the
\* first line of its output is read, else the loop goes on
VersionWake(ok) ==
    /\ version.pc = "wait"
    /\ version.children[version.child].st # "running"
    /\ LET v == version_exited(version, ok)
           io == version_write(v, [buf |-> sockbuf, sock |-> sock])
       IN  version' = v /\ sockbuf' = io.buf /\ sock' = io.sock
    /\ UNCHANGED <<bridgeVars, writerVars, runnerVars>>
    /\ semaphore_object_destroyed

\* async_read_until completes, with a line or without
VersionRead(ok) ==
    /\ version.pc = "read"
    /\ LET v == version_line(version, ok)
           io == version_write(v, [buf |-> sockbuf, sock |-> sock])
       IN  version' = v /\ sockbuf' = io.buf /\ sock' = io.sock
    /\ UNCHANGED <<bridgeVars, writerVars, runnerVars>>
    /\ semaphore_object_destroyed

\* the write of VersionResult completes: on_wrote calls the coroutine, which
\* ends
VersionWritten ==
    /\ version.pc = "write"
    /\ sock.outstanding # <<>>
    /\ LET io == on_wrote([buf |-> sockbuf, sock |-> [sock EXCEPT !.outstanding = Tail(@)]])
       IN  sockbuf' = io.buf /\ sock' = io.sock
    /\ version' = [version EXCEPT !.pc = "ended"]
    /\ UNCHANGED <<bridgeVars, writerVars, runnerVars>>
    /\ semaphore_object_destroyed

\* the wait on kill_timer for child c, cancelled, is called with
\* operation_aborted: if (ec) yield break
TimerAborted(c) ==
    /\ runner_pc = "running"
    /\ c \in Children
    /\ procs[c].timer.st = "aborted"
    /\ procs' = [procs EXCEPT ![c].timer.st = "ended"]
    /\ UNCHANGED <<runner_pc, limitter, sockbuf, sock>>

\* a handler of program_runner or of one of its forwarders is called; the
\* children write nothing and every spawn succeeds
SessionRunner ==
    /\ \/ \E i \in 1..Len(sock.outstanding) : RunnerWritten(i, TRUE)
       \/ \E c \in Children, s \in 1..2 : ReadEnd(c, s)
       \/ \E c \in Children, s \in 1..2 : ForwarderHandler(c, s, TRUE)
       \/ \E c \in Children : StdinWritten(c, TRUE)
       \/ \E c \in Children : StatusWake(c, TRUE)
       \/ \E c \in Children : TimerHandler(c)
       \/ \E c \in Children : TimerAborted(c)
    /\ UNCHANGED <<bridgeVars, writerVars, version>>
    /\ semaphore_object_destroyed

\* a child ends, kill_timer expires
SessionEnvironment ==
    /\ Events < MaxSessionEvents
    /\ \/ \E c \in Children, how \in {"exit0", "exit1"} : ChildEnds(c, how)
       \/ \E c \in Children : TimerExpires(c)
    /\ UNCHANGED <<bridgeVars, writerVars, version, sem_released>>

\* ------------------------------------------------------------------------
\* program_runner: the command lines of the two phases
\* ------------------------------------------------------------------------
\* Strings are sequences of characters, an argv is a sequence of strings.
\* jail.jail_command
jail_command == << <<"j">>, <<"-", "-">> >>

\* config.switches: the switches of the server by id, each with its flags,
\* its insert_position and whether it is for the program (runtime)
config_switches ==
    (<<"a">> :> [flags |-> << <<"-", "a">> >>, insert_position |-> 1, runtime |-> FALSE])
    @@ (<<"b">> :> [flags |-> << <<"-", "r">>, <<"-", "s">> >>, insert_position |-> 0, runtime |-> TRUE])

\* the ids a compiler's switches are taken from: two of config.switches and
\* one that config.switches does not have
ProfileSwitches == << <<"a">>, <<"b">>, <<"a", "b">> >>

\* a compiler of config.compilers with these switches
compiler_with(switches) ==
    [compile_command |-> << <<"c", "c">>, <<"p">> >>,
     run_command |-> << <<"p">> >>,
     switches |-> switches]

\* qi::parse(ite, end, qi::as_string[+(qi::char_-','-'\n')] % ',', selected):
\* a run of one or more characters other than ',' and '\n', and after it as
\* long as a ',' and another such run follow; the parse stops where they do
\* not, keeping what it has
RECURSIVE selected_from(_, _)
selected_from(str, i) ==
    LET k == RunOf(str, i, {",", "\n"}, FALSE) IN
    IF k = 0 THEN {}
    ELSE {SubSeq(str, i, i + k - 1)}
         \cup (IF i + k <= Len(str) /\ str[i + k] = ","
               THEN selected_from(str, i + k + 1) ELSE {})

\* every switch of the compiler taken as selected
parse_selected_all(str) == {ProfileSwitches[i] : i \in 1..Len(ProfileSwitches)}

parse_selected(str) == selected_from(str, 1)

\* the lambda f: the flags go to the end of args, or before position
\* insert_position (which the configuration keeps within args)
insert_flags(args, sw) ==
    IF sw.insert_position = 0 THEN args \o sw.flags
    ELSE SubSeq(args, 1, sw.insert_position) \o sw.flags
         \o SubSeq(args, sw.insert_position + 1, Len(args))

\* for (const auto &sw: target_compiler.switches): a switch that is selected
\* and that config.switches has puts its flags into progargs when it is
\* runtime and into ccargs when not; a is <<ccargs, progargs>>
RECURSIVE apply_switches(_, _, _)
apply_switches(a, switches, selected) ==
    IF switches = <<>> THEN a
    ELSE LET sw == Head(switches)
             b == IF sw \notin selected THEN a
                  ELSE IF sw \notin DOMAIN config_switches THEN a
                  ELSE IF config_switches[sw].runtime
                  THEN <<a[1], insert_flags(a[2], config_switches[sw])>>
                  ELSE <<insert_flags(a[1], config_switches[sw]), a[2]>>
         IN  apply_switches(b, Tail(switches), selected)

\* boost::algorithm::replace_all(input, "\r\n", "\n")
RECURSIVE replace_all(_)
replace_all(input) ==
    IF input = <<>> THEN <<>>
    ELSE IF Len(input) >= 2 /\ input[1] = "\r" /\ input[2] = "\n"
    THEN <<"\n">> \o replace_all(SubSeq(input, 3, Len(input)))
    ELSE <<input[1]>> \o replace_all(Tail(input))

\* boost::algorithm::split(s, input, boost::is_any_of("\r\n")): the pieces
\* between the separators, one more than there are separators
RECURSIVE algorithm_split(_)
algorithm_split(input) ==
    LET k == RunOf(input, 1, {"\r", "\n"}, FALSE) IN
    IF k = Len(input) THEN <<input>>
    ELSE <<SubSeq(input, 1, k)>> \o algorithm_split(SubSeq(input, k + 2, Len(input)))

\* the pieces of a raw option: if (not s.empty() && s.back().empty()) s.pop_back()
raw_pieces(input) ==
    LET s == algorithm_split(replace_all(input)) IN
    IF s # <<>> /\ s[Len(s)] = <<>> THEN SubSeq(s, 1, Len(s) - 1) ELSE s

\* args with the pieces of received[key], if received has the key
append_raw(args, received, key) ==
    IF key \in DOMAIN received THEN args \o raw_pieces(received[key]) ELSE args

\* operator() up to commands = { ... }: the two commands of the session
make_commands(target_compiler, received) ==
    LET selected == IF "CompilerOption" \in DOMAIN received
                    THEN parse_selected(received["CompilerOption"]) ELSE {}
        switched == IF "CompilerOption" \in DOMAIN received
                    THEN apply_switches(<<target_compiler.compile_command,
                                          target_compiler.run_command>>,
                                        target_compiler.switches, selected)
                    ELSE <<target_compiler.compile_command, target_compiler.run_command>>
        ccargs == append_raw(switched[1], received, "CompilerOptionRaw")
        progargs == append_raw(switched[2], received, "RuntimeOptionRaw")
    IN  << [arguments |-> jail_command \o ccargs, stdin_command |-> "",
            stdout_command |-> "CompilerMessageS", stderr_command |-> "CompilerMessageE"],
           [arguments |-> jail_command \o progargs, stdin_command |-> "StdIn",
            stdout_command |-> "StdOut", stderr_command |-> "StdErr"] >>

\* the strings of up to n characters of the alphabet
StringsOf(alphabet, n) == UNION {[1..k -> alphabet] : k \in 0..n}

\* the subsequences of a sequence
RECURSIVE Subsequences(_)
Subsequences(q) ==
    IF q = <<>> THEN {<<>>}
    ELSE LET rest == Subsequences(Tail(q)) IN rest \cup {<<Head(q)>> \o r : r \in rest}

\* what the client can have sent: CompilerOption or not, and a raw option for
\* the compiler, for the compiler and the program, or none
ReceivedMaps ==
    LET options == {EmptyMap}
                   \cup {"CompilerOption" :> str : str \in StringsOf({"a", "b", ",", "\n"}, MaxOptionLen)}
        raws == {EmptyMap}
                \cup {"CompilerOptionRaw" :> str : str \in StringsOf({"x", "\r", "\n"}, MaxRawLen)}
                \cup {("CompilerOptionRaw" :> str) @@ ("RuntimeOptionRaw" :> str) :
                          str \in StringsOf({"x", "\r", "\n"}, MaxRawLen)}
    IN  {o @@ r : o \in options, r \in raws}

\* program_runner as constructed, its commands not made yet
program_runner(target_compiler, received) ==
    [target_compiler |-> target_compiler, received |-> received, commands |-> <<>>]

CommandsIdle == commands = program_runner(compiler_with(<<>>), EmptyMap)

\* the first call of operator()
MakeCommands ==
    /\ commands.commands = <<>>
    /\ commands' = [commands EXCEPT !.commands = make_commands(commands.target_compiler, commands.received)]

\* ------------------------------------------------------------------------
\* The specifications
\* ------------------------------------------------------------------------
ListenerNext ==
    \/ Accept /\ UNCHANGED <<bufferVars, pathVars, writerVars, runnerVars, bridgeVars, waiterVars, sessionVars, commandVars>>
    \/ SemaphoreAcquired /\ UNCHANGED <<bufferVars, pathVars, writerVars, runnerVars, bridgeVars, waiterVars, sessionVars, commandVars>>
    \/ \E s \in Sessions : SessionEnd(s) /\ UNCHANGED <<bufferVars, pathVars, writerVars, runnerVars, bridgeVars, waiterVars, sessionVars, commandVars>>

ListenerInit == ListenerStart /\ BufferIdle /\ PathIdle /\ WriterIdle /\ RunnerIdle /\ BridgeIdle /\ WaitersIdle /\ SessionIdle /\ CommandsIdle

SpecListener == ListenerInit /\ [][ListenerNext]_vars

BufferNext ==
    \/ \E k \in {"plain", "chain"} : Submit(k) /\ UNCHANGED <<listenerVars, pathVars, writerVars, runnerVars, bridgeVars, waiterVars, sessionVars, commandVars>>
    \/ WriteCompleted /\ UNCHANGED <<listenerVars, pathVars, writerVars, runnerVars, bridgeVars, waiterVars, sessionVars, commandVars>>

BufferInit == BufferIdle /\ ListenerIdle /\ PathIdle /\ WriterIdle /\ RunnerIdle /\ BridgeIdle /\ WaitersIdle /\ SessionIdle /\ CommandsIdle

SpecBuffer == BufferInit /\ [][BufferNext]_vars

PathNext == CreateUnder /\ UNCHANGED <<listenerVars, bufferVars, writerVars, runnerVars, bridgeVars, waiterVars, sessionVars, commandVars>>

PathInit == PathStart /\ ListenerIdle /\ BufferIdle /\ WriterIdle /\ RunnerIdle /\ BridgeIdle /\ WaitersIdle /\ SessionIdle /\ CommandsIdle

SpecPath == PathInit /\ [][PathNext]_vars

WriterNext ==
    \/ WriterRun /\ UNCHANGED <<listenerVars, bufferVars, pathVars, runnerVars, bridgeVars, waiterVars, sessionVars, commandVars>>
    \/ WriterRetry /\ UNCHANGED <<listenerVars, bufferVars, pathVars, runnerVars, bridgeVars, waiterVars, sessionVars, commandVars>>
    \/ StoreWritten /\ UNCHANGED <<listenerVars, bufferVars, pathVars, runnerVars, bridgeVars, waiterVars, sessionVars, commandVars>>
    \/ ArchiveWritten /\ UNCHANGED <<listenerVars, bufferVars, pathVars, runnerVars, bridgeVars, waiterVars, sessionVars, commandVars>>

WriterInit == WriterStart /\ ListenerIdle /\ BufferIdle /\ PathIdle /\ RunnerIdle /\ BridgeIdle /\ WaitersIdle /\ SessionIdle /\ CommandsIdle

SpecWriter == WriterInit /\ [][WriterNext]_vars

RunnerNext ==
    \/ RunnerStart /\ UNCHANGED <<listenerVars, submitted, done, pathVars, writerVars, bridgeVars, waiterVars, sessionVars, commandVars>>
    \/ \E i \in 1..Len(sock.outstanding), ok \in BOOLEAN : RunnerWritten(i, ok) /\ UNCHANGED <<listenerVars, submitted, done, pathVars, writerVars, bridgeVars, waiterVars, sessionVars, commandVars>>
    \/ \E c \in Children, s \in 1..2 : ReadEnd(c, s) /\ UNCHANGED <<listenerVars, submitted, done, pathVars, writerVars, bridgeVars, waiterVars, sessionVars, commandVars>>
    \/ \E c \in Children, s \in 1..2, ok \in BOOLEAN : ForwarderHandler(c, s, ok) /\ UNCHANGED <<listenerVars, submitted, done, pathVars, writerVars, bridgeVars, waiterVars, sessionVars, commandVars>>
    \/ \E c \in Children, ok \in BOOLEAN : StdinWritten(c, ok) /\ UNCHANGED <<listenerVars, submitted, done, pathVars, writerVars, bridgeVars, waiterVars, sessionVars, commandVars>>
    \/ \E c \in Children, ok \in BOOLEAN : StatusWake(c, ok) /\ UNCHANGED <<listenerVars, submitted, done, pathVars, writerVars, bridgeVars, waiterVars, sessionVars, commandVars>>
    \/ \E c \in Children, how \in {"exit0", "exit1", "signaled"} : ChildEnds(c, how) /\ UNCHANGED <<listenerVars, submitted, done, pathVars, writerVars, bridgeVars, waiterVars, sessionVars, commandVars>>
    \/ \E i \in 1..Len(sock.outstanding) : ForwarderWritten(i) /\ UNCHANGED <<listenerVars, submitted, done, pathVars, writerVars, bridgeVars, waiterVars, sessionVars, commandVars>>
    \/ \E c \in Children, s \in 1..2, len \in ChunkLens : ReadChunk(c, s, len) /\ UNCHANGED <<listenerVars, submitted, done, pathVars, writerVars, bridgeVars, waiterVars, sessionVars, commandVars>>
    \/ \E c \in Children : TimerExpires(c) /\ UNCHANGED <<listenerVars, submitted, done, pathVars, writerVars, bridgeVars, waiterVars, sessionVars, commandVars>>
    \/ \E c \in Children : TimerHandler(c) /\ UNCHANGED <<listenerVars, submitted, done, pathVars, writerVars, bridgeVars, waiterVars, sessionVars, commandVars>>

RunnerInit == RunnerIdle /\ ListenerIdle /\ BufferIdle /\ PathIdle /\ WriterIdle /\ BridgeIdle /\ WaitersIdle /\ SessionIdle /\ CommandsIdle

SpecRunner == RunnerInit /\ [][RunnerNext]_vars


\* ------------------------------------------------------------------------
\* the bridge of one connection, reads ending where frames end
BridgeNext ==
    \/ \E k \in 1..MaxFramesIn : BridgeReadFrames(k) /\ UNCHANGED <<listenerVars, bufferVars, pathVars, writerVars, runnerVars, waiterVars, sessionVars, commandVars>>
    \/ BridgeReadError /\ UNCHANGED <<listenerVars, bufferVars, pathVars, writerVars, runnerVars, waiterVars, sessionVars, commandVars>>

BridgeInit ==
    /\ \E fs \in FrameSeqs(MaxFramesIn) : BridgeStart(fs)
    /\ ListenerIdle /\ BufferIdle /\ PathIdle /\ WriterIdle /\ RunnerIdle /\ WaitersIdle /\ SessionIdle /\ CommandsIdle

SpecBridge == BridgeInit /\ [][BridgeNext]_vars

\* the bridge of one connection, reads ending anywhere
DecoderNext ==
    \/ \E n \in 1..Len(inbound) : BridgeRead(n) /\ UNCHANGED <<listenerVars, bufferVars, pathVars, writerVars, runnerVars, waiterVars, sessionVars, commandVars>>
    \/ BridgeReadError /\ UNCHANGED <<listenerVars, bufferVars, pathVars, writerVars, runnerVars, waiterVars, sessionVars, commandVars>>

DecoderInit ==
    /\ \E fs \in FrameSeqs(MaxSplitFrames) : BridgeStart(fs)
    /\ ListenerIdle /\ BufferIdle /\ PathIdle /\ WriterIdle /\ RunnerIdle /\ WaitersIdle /\ SessionIdle /\ CommandsIdle

SpecDecoder == DecoderInit /\ [][DecoderNext]_vars

\* status_forwarders on the shared signal set
WaitersNext ==
    \/ \E w \in Waiters : AsyncForward(w) /\ UNCHANGED <<listenerVars, bufferVars, pathVars, writerVars, runnerVars, bridgeVars, sessionVars, commandVars>>
    \/ \E w \in Waiters : WaiterChildExits(w) /\ UNCHANGED <<listenerVars, bufferVars, pathVars, writerVars, runnerVars, bridgeVars, sessionVars, commandVars>>
    \/ OtherSignal /\ UNCHANGED <<listenerVars, bufferVars, pathVars, writerVars, runnerVars, bridgeVars, sessionVars, commandVars>>
    \/ \E w \in Waiters : WaitHandler(w) /\ UNCHANGED <<listenerVars, bufferVars, pathVars, writerVars, runnerVars, bridgeVars, sessionVars, commandVars>>

WaitersInit == WaitersIdle /\ ListenerIdle /\ BufferIdle /\ PathIdle /\ WriterIdle /\ RunnerIdle /\ BridgeIdle /\ SessionIdle /\ CommandsIdle

SpecWaiters == WaitersInit /\ [][WaitersNext]_vars

\* the session at the start of its run phase: Control: Start is written, the
\* compilation has exited with 0 without output before its time limit, its
\* pipes are closed and the join has spawned the program
RunPhase ==
    LET io0 == async_write_command([buf |-> socket_write_buffer(<<0, 0>>), sock |-> tcp_socket],
                                   ControlStart, [k |-> "start_written"])
        io1 == on_wrote([buf |-> io0.buf, sock |-> [io0.sock EXCEPT !.outstanding = <<>>]])
        r1 == spawn_phase([pc |-> "running", procs |-> <<>>,
                           limitter |-> write_limit_counter(output_limit_warn, output_limit_kill),
                           sockbuf |-> io1.buf, sock |-> io1.sock], 1, TRUE)
        compiled == [r1 EXCEPT !.procs[1].proc = "exit0",
                               !.procs[1].stdin = "closed",
                               !.procs[1].out[1].pc = "closed",
                               !.procs[1].out[2].pc = "closed",
                               !.procs[1].finished = TRUE]
    IN  wait_process_killed(compiled, 1, TRUE)

RunPhaseStart ==
    /\ runner_pc = RunPhase.pc
    /\ procs = RunPhase.procs
    /\ limitter = RunPhase.limitter
    /\ sockbuf = RunPhase.sockbuf
    /\ sock = RunPhase.sock
    /\ submitted = <<>>
    /\ done = [i \in FrameIds |-> 0]

\* the run phase of a session whose peer may disconnect at any time, the
\* program ending before its time limit
DisconnectNext ==
    \/ \E i \in 1..Len(sock.outstanding) : RunnerWritten(i, TRUE) /\ UNCHANGED <<listenerVars, pathVars, writerVars, bridgeVars, waiterVars, submitted, done, sessionVars, commandVars>>
    \/ \E i \in 1..Len(sock.outstanding) : ForwarderWritten(i) /\ UNCHANGED <<listenerVars, pathVars, writerVars, bridgeVars, waiterVars, submitted, done, sessionVars, commandVars>>
    \/ \E c \in Children, s \in 1..2, len \in ChunkLens : ReadChunk(c, s, len) /\ UNCHANGED <<listenerVars, pathVars, writerVars, bridgeVars, waiterVars, submitted, done, sessionVars, commandVars>>
    \/ \E c \in Children, s \in 1..2 : ReadEnd(c, s) /\ UNCHANGED <<listenerVars, pathVars, writerVars, bridgeVars, waiterVars, submitted, done, sessionVars, commandVars>>
    \/ \E c \in Children, s \in 1..2 : ForwarderHandler(c, s, TRUE) /\ UNCHANGED <<listenerVars, pathVars, writerVars, bridgeVars, waiterVars, submitted, done, sessionVars, commandVars>>
    \/ \E c \in Children : StdinWritten(c, TRUE) /\ UNCHANGED <<listenerVars, pathVars, writerVars, bridgeVars, waiterVars, submitted, done, sessionVars, commandVars>>
    \/ \E c \in Children : StatusWake(c, TRUE) /\ UNCHANGED <<listenerVars, pathVars, writerVars, bridgeVars, waiterVars, submitted, done, sessionVars, commandVars>>
    \/ \E c \in Children, how \in {"exit0", "exit1", "signaled"} : ChildEnds(c, how) /\ UNCHANGED <<listenerVars, pathVars, writerVars, bridgeVars, waiterVars, submitted, done, sessionVars, commandVars>>
    \/ PeerDisconnect /\ UNCHANGED <<listenerVars, pathVars, writerVars, bridgeVars, waiterVars, submitted, done, sessionVars, commandVars>>

DisconnectInit == RunPhaseStart /\ ListenerIdle /\ PathIdle /\ WriterIdle /\ BridgeIdle /\ WaitersIdle /\ SessionIdle /\ CommandsIdle

SpecDisconnect == DisconnectInit /\ [][DisconnectNext]_vars

\* one session from its accept to the return of its semaphore unit
SessionNext ==
    \/ \E k \in 1..4 : SessionRead(k) /\ UNCHANGED <<listenerVars, pathVars, waiterVars, submitted, done, commandVars>>
    \/ SessionReadError /\ UNCHANGED <<listenerVars, pathVars, waiterVars, submitted, done, commandVars>>
    \/ SessionWriter /\ UNCHANGED <<listenerVars, pathVars, waiterVars, submitted, done, commandVars>>
    \/ \E how \in {"exit0", "exit1"}, output \in BOOLEAN : VersionChildEnds(how, output) /\ UNCHANGED <<listenerVars, pathVars, waiterVars, submitted, done, commandVars>>
    \/ VersionWake(TRUE) /\ UNCHANGED <<listenerVars, pathVars, waiterVars, submitted, done, commandVars>>
    \/ VersionRead(TRUE) /\ UNCHANGED <<listenerVars, pathVars, waiterVars, submitted, done, commandVars>>
    \/ VersionWritten /\ UNCHANGED <<listenerVars, pathVars, waiterVars, submitted, done, commandVars>>
    \/ SessionRunner /\ UNCHANGED <<listenerVars, pathVars, waiterVars, submitted, done, commandVars>>
    \/ SessionEnvironment /\ UNCHANGED <<listenerVars, pathVars, waiterVars, submitted, done, commandVars>>

SessionInit ==
    /\ \E fs \in SessionStreams : BridgeStart(fs)
    /\ ListenerIdle /\ BufferIdle /\ PathIdle /\ WriterIdle /\ RunnerIdle /\ WaitersIdle /\ SessionIdle /\ CommandsIdle

SpecSession == SessionInit /\ [][SessionNext]_vars

\* ------------------------------------------------------------------------
\* a version listing, over the catalogues of up to MaxCompilers compilers
compiler_name(i) == <<"c">> \o to_string(i)

Catalogues ==
    UNION { [1..n -> [name : {<<>>}, displayable : BOOLEAN,
                      version_command : {<<>>, <<"v">>}]] : n \in 0..MaxCompilers }

Named(cat) == [i \in 1..Len(cat) |-> [cat[i] EXCEPT !.name = compiler_name(i)]]

VersionNext ==
    \/ \E ok \in BOOLEAN : VersionStart(ok) /\ UNCHANGED <<listenerVars, pathVars, waiterVars, submitted, done, commandVars>>
    \/ \E how \in {"exit0", "exit1", "signaled"}, output \in BOOLEAN : VersionChildEnds(how, output) /\ UNCHANGED <<listenerVars, pathVars, waiterVars, submitted, done, commandVars>>
    \/ \E ok \in BOOLEAN : VersionWake(ok) /\ UNCHANGED <<listenerVars, pathVars, waiterVars, submitted, done, commandVars>>
    \/ \E ok \in BOOLEAN : VersionRead(ok) /\ UNCHANGED <<listenerVars, pathVars, waiterVars, submitted, done, commandVars>>
    \/ VersionWritten /\ UNCHANGED <<listenerVars, pathVars, waiterVars, submitted, done, commandVars>>

VersionInit ==
    /\ \E cat \in Catalogues : version = version_sender(Named(cat))
    /\ sem_released = 0
    /\ ListenerIdle /\ BufferIdle /\ PathIdle /\ WriterIdle /\ RunnerIdle /\ BridgeIdle /\ WaitersIdle /\ CommandsIdle

SpecVersion == VersionInit /\ [][VersionNext]_vars

\* ------------------------------------------------------------------------
\* the command lines of a session, over the compilers and the client's options
CommandsNext ==
    \/ MakeCommands /\ UNCHANGED <<listenerVars, bufferVars, pathVars, writerVars, runnerVars, bridgeVars, waiterVars, sessionVars>>

CommandsInit ==
    /\ \E switches \in Subsequences(ProfileSwitches), received \in ReceivedMaps :
          commands = program_runner(compiler_with(switches), received)
    /\ ListenerIdle /\ BufferIdle /\ PathIdle /\ WriterIdle /\ RunnerIdle /\ BridgeIdle /\ WaitersIdle /\ SessionIdle

SpecCommands == CommandsInit /\ [][CommandsNext]_vars

\* ------------------------------------------------------------------------
\* a session with its time limits and its output limit: every spawn succeeds,
\* and at most MaxSignalEvents times a child ends, kill_timer expires or a
\* chunk of output arrives
SignalsEnvironment ==
    /\ Events < MaxSignalEvents
    /\ \/ \E c \in Children, how \in {"exit0", "exit1", "signaled"} : ChildEnds(c, how)
       \/ \E c \in Children : TimerExpires(c)
       \/ \E c \in Children, s \in 1..2, len \in ChunkLens : ReadChunk(c, s, len)

SignalsNext ==
    \/ RunnerStart /\ UNCHANGED <<listenerVars, submitted, done, pathVars, writerVars, bridgeVars, waiterVars, sessionVars, commandVars>>
    \/ \E i \in 1..Len(sock.outstanding) : RunnerWritten(i, TRUE) /\ UNCHANGED <<listenerVars, submitted, done, pathVars, writerVars, bridgeVars, waiterVars, sessionVars, commandVars>>
    \/ \E i \in 1..Len(sock.outstanding) : ForwarderWritten(i) /\ UNCHANGED <<listenerVars, submitted, done, pathVars, writerVars, bridgeVars, waiterVars, sessionVars, commandVars>>
    \/ \E c \in Children, s \in 1..2 : ReadEnd(c, s) /\ UNCHANGED <<listenerVars, submitted, done, pathVars, writerVars, bridgeVars, waiterVars, sessionVars, commandVars>>
    \/ \E c \in Children, s \in 1..2 : ForwarderHandler(c, s, TRUE) /\ UNCHANGED <<listenerVars, submitted, done, pathVars, writerVars, bridgeVars, waiterVars, sessionVars, commandVars>>
    \/ \E c \in Children : StdinWritten(c, TRUE) /\ UNCHANGED <<listenerVars, submitted, done, pathVars, writerVars, bridgeVars, waiterVars, sessionVars, commandVars>>
    \/ \E c \in Children : StatusWake(c, TRUE) /\ UNCHANGED <<listenerVars, submitted, done, pathVars, writerVars, bridgeVars, waiterVars, sessionVars, commandVars>>
    \/ \E c \in Children : TimerHandler(c) /\ UNCHANGED <<listenerVars, submitted, done, pathVars, writerVars, bridgeVars, waiterVars, sessionVars, commandVars>>
    \/ SignalsEnvironment /\ UNCHANGED <<listenerVars, submitted, done, pathVars, writerVars, bridgeVars, waiterVars, sessionVars, commandVars>>

SpecSignals == RunnerInit /\ [][SignalsNext]_vars

\* ------------------------------------------------------------------------
\* Properties
\* ------------------------------------------------------------------------
\* C2: the number of concurrently active sessions (reading their socket, not
\* yet ended) never exceeds max_connections, for every max_connections >= 1.
AdmissionBound == Cardinality(ActiveSessions) <= max_connections

\* the pool is exhausted after some sessions have already ended
AdmissionFullAfterEnd ==
    /\ Cardinality(ActiveSessions) = max_connections
    /\ \E s \in Sessions : session[s] = "ended"
    /\ listener_pc = "semaphore"
    /\ des = 0

OnWire(f) == \E i \in 1..Len(Wire(sock)) : Wire(sock)[i] = f

IsPrefix(a, b) == Len(a) <= Len(b) /\ SubSeq(b, 1, Len(a)) = a

\* C4: the frames appear on the wire in the order of their submit calls,
\* whatever the interleaving of submits and write completions.
WireInSubmitOrder == IsPrefix(Wire(sock), submitted)

\* a batch of two or more frames, one of them submitted from inside a
\* handler, went out after an earlier write
BatchedChainOnWire ==
    \E i \in 2..Len(sock.wrote) :
        /\ Len(sock.wrote[i]) >= 2
        /\ \E j \in 1..Len(sock.wrote[i]) : sock.wrote[i][j].id < 0

FrameWritten(f) ==
    /\ OnWire(f)
    /\ \A i \in 1..Len(sock.outstanding) :
          \A j \in 1..Len(sock.outstanding[i].b) : sock.outstanding[i].b[j] # f

\* C5: every submitted frame is handed to the socket exactly once and its
\* handler is invoked exactly once, only after the write that carried it has
\* completed; nothing waits in the back queue while no write is outstanding.
ExactlyOnce ==
    /\ \A i, j \in 1..Len(Wire(sock)) : Wire(sock)[i] = Wire(sock)[j] => i = j
    /\ \A n \in 1..Len(submitted) :
          LET f == submitted[n] IN
          /\ done[f.id] <= 1
          /\ done[f.id] = 1 => FrameWritten(f)
          /\ FrameWritten(f) => done[f.id] = 1
          /\ sock.outstanding = <<>> => OnWire(f) /\ done[f.id] = 1
    /\ sockbuf.writing <=> (sock.outstanding # <<>>)
    /\ ~sockbuf.writing => sockbuf.back_buf = <<>> /\ sockbuf.back_handlers = <<>>

\* everything is written and called back, after frames waited behind a write
\* and a handler submitted one more
AllDoneAfterBatch ==
    /\ sock.outstanding = <<>>
    /\ Len(submitted) >= MaxFrames
    /\ \E n \in 1..Len(submitted) : submitted[n].id < 0
    /\ \E i \in 1..Len(sock.wrote) : Len(sock.wrote[i]) >= 2

\* a ".." directory segment is met while d0 directories are open and none is
\* left to leave
RECURSIVE DotDotBeyond(_, _)
DotDotBeyond(dirs, d) ==
    IF dirs = <<>> THEN FALSE
    ELSE IF Head(dirs) = <<>> \/ Head(dirs) = Dot THEN DotDotBeyond(Tail(dirs), d)
    ELSE IF Head(dirs) = DotDot THEN d = 0 \/ DotDotBeyond(Tail(dirs), d - 1)
    ELSE DotDotBeyond(Tail(dirs), d + 1)

DirSegments(str) == SubSeq(split(str, <<>>), 1, Len(split(str, <<>>)) - 1)
TargetSegment(str) == split(str, <<>>)[Len(split(str, <<>>))]

Absolute(str) == str # <<>> /\ str[1] = "/"

Rejected(str) == Absolute(str) \/ DotDotBeyond(DirSegments(str), 0)

\* the errno values a failing system call of the walk leaves
IoErrors == {"ENOENT", "EEXIST", "ENOTDIR", "EMFILE"}

\* C6: the call fails without creating the target for every path that begins
\* with '/' or meets ".." with no intermediate directory open, and succeeds
\* otherwise unless a system call fails (no descriptor left, or a target
\* segment that is empty, ".", ".." or a directory); the target is opened at
\* depth >= 0 below the starting directory.
CreateUnderSafe ==
    path_pc = "returned" =>
        /\ Rejected(relative_path) =>
              create_result.fd = -1 /\ create_result.fs.files = {}
        /\ ~Rejected(relative_path) =>
              create_result.fd # -1 \/ create_result.errno \in IoErrors
        /\ (~Rejected(relative_path) /\ ~no_fd
              /\ TargetSegment(relative_path) \notin {<<>>, Dot, DotDot}
              /\ \A i \in 1..Len(DirSegments(relative_path)) :
                    DirSegments(relative_path)[i] # DotDot) =>
              create_result.fd # -1
        /\ create_result.fd # -1 =>
              /\ create_result.depth >= 0
              /\ Len(create_result.at) = create_result.depth
              /\ create_result.fs.files = {create_result.target}
        /\ relative_path \in {EtcPasswd, UpUpEtcPasswd, AUpUpB} => create_result.fd = -1
        /\ (relative_path \in {ABC, DotA} /\ ~no_fd) => create_result.fd # -1

\* "a/../../b" is refused after the directory a was made and left
RefusedAfterLeaving ==
    /\ path_pc = "returned"
    /\ relative_path = AUpUpB
    /\ create_result.fd = -1
    /\ create_result.fs.dirs = {<< <<"a">> >>}
    /\ create_result.fs.files = {}

\* escapes the work directory: store/<filename> meets ".." with store left
EscapesWorkdir(f) == DotDotBeyond(DirSegments(f), 1)

\* C7: a source whose filename is absolute or escapes via ".." fails the
\* session: no file is made for it and the runner is never started (no child,
\* no Control: Start).
StagingRefusesBadNames ==
    \A f \in ClientNames :
        ((f = writer.current_source.client /\ writer.pc \notin {"start"})
            \/ \E m \in staged : m.client = f) =>
        ((Absolute(f) \/ EscapesWorkdir(f)) =>
            /\ \A m \in staged : m.client # f
            /\ writer.pc \in {"retry", "ended"})

\* the place of a frame in
\* Control:Start (CompilerMessageS|CompilerMessageE)* (StdOut|StdErr)*
\* (ExitCode|Signal) Control:Finish
Place(f) ==
    IF f = ControlStart THEN 1
    ELSE IF f.cmd \in {"CompilerMessageS", "CompilerMessageE"} THEN 2
    ELSE IF f.cmd \in {"StdOut", "StdErr"} THEN 3
    ELSE IF f.cmd \in {"ExitCode", "Signal"} THEN 4
    ELSE 5

\* the frames w begin a sequence of that form
BeginsSession(w) ==
    /\ w # <<>> => Place(w[1]) = 1
    /\ \A i, j \in 1..Len(w) :
          i < j => /\ Place(w[i]) <= Place(w[j])
                   /\ Place(w[i]) = Place(w[j]) => Place(w[i]) \in {2, 3}
    /\ \A j \in 1..Len(w) : Place(w[j]) = 5 => j > 1 /\ Place(w[j - 1]) = 4

\* C1: the frames a session has put on the client socket always begin a
\* sequence Control:Start, compiler messages, program output, one ExitCode or
\* Signal, one Control:Finish, whatever the interleaving of pipe closes, child
\* exits and timer expiries.
FrameSequence == runner_pc = "running" => BeginsSession(Wire(sock))

\* C3: at most one write is outstanding on the session's client socket, all
\* the session's producers counted together.
OneOutstandingWrite == Len(sock.outstanding) <= 1

\* each phase has had one child
OneChildPerPhase ==
    \A c, d \in Children : c # d => procs[c].phase # procs[d].phase

\* C8: in each phase the child is under its time limit until it is reaped:
\* the wait that will send it SIGXCPU or SIGKILL is pending or has expired, or
\* the timer has already sent it SIGKILL; and the timer sends SIGKILL only
\* after SIGXCPU.  (Stated for the sessions in which each phase has had one
\* child.)
TimeLimitPending ==
    OneChildPerPhase =>
    \A c \in Children :
        /\ ~procs[c].finished =>
              \/ procs[c].timer.st \in {"armed", "fired"}
              \/ [sig |-> "SIGKILL", by |-> "timer"] \in procs[c].signals
        /\ [sig |-> "SIGKILL", by |-> "timer"] \in procs[c].signals =>
              [sig |-> "SIGXCPU", by |-> "timer"] \in procs[c].signals

\* C9: a child whose output, chunk by chunk, has passed output_limit_warn has
\* been sent a signal by the limiter, and one whose output has passed
\* output_limit_kill has been sent SIGKILL, unless it was reaped first.
LimitSignalsTheChild ==
    \A c \in Children :
        ~procs[c].finished =>
            /\ procs[c].forwarded > output_limit_warn =>
                  \E g \in procs[c].signals : g.by = "limit"
            /\ procs[c].forwarded > output_limit_kill =>
                  [sig |-> "SIGKILL", by |-> "limit"] \in procs[c].signals

\* C10: the limiter signals a child only for its own bytes: a child it sent
\* SIGXFSZ has itself written more than output_limit_warn, and one it sent
\* SIGKILL more than output_limit_kill.  (Stated for the sessions in which
\* each phase has had one child.)
LimitCountsOwnBytes ==
    OneChildPerPhase =>
    \A c \in Children :
        /\ [sig |-> "SIGXFSZ", by |-> "limit"] \in procs[c].signals =>
              procs[c].forwarded > output_limit_warn
        /\ [sig |-> "SIGKILL", by |-> "limit"] \in procs[c].signals =>
              procs[c].forwarded > output_limit_kill

\* C11: a run child exists only if the compile child exited with status 0 and
\* the compile phase's soft timer did not fire; otherwise no run child is
\* spawned.
RunOnlyAfterCleanCompile ==
    \A c \in Children :
        procs[c].phase = 2 =>
            \E k \in Children :
                /\ procs[k].phase = 1
                /\ procs[k].proc = "exit0"
                /\ procs[k].expired = 0

\* C13: a session whose acquire on the admission semaphore has not completed
\* (its read of the eventfd is still pending) has done no work: it is not
\* reading its socket and has not run to its end.
WorkOnlyAfterAcquire ==
    \A s \in Sessions : sem_read = s => session[s] = "none"

\* a Signal frame is with program_runner's sockbuf or on the socket
SignalSubmitted ==
    \E f \in {sockbuf.front_buf[i] : i \in 1..Len(sockbuf.front_buf)}
             \cup {sockbuf.back_buf[i] : i \in 1..Len(sockbuf.back_buf)}
             \cup {Wire(sock)[i] : i \in 1..Len(Wire(sock))} :
        f.cmd = "Signal"

\* C14: when spawning the compile or the run child has failed, the session
\* has a Signal frame on its way to the client (Control: Finish follows it),
\* and the failure stays with that session.
SpawnFailureReported == runner_pc = "spawn_failed" => SignalSubmitted

\* ---- compiler_bridge ------------------------------------------------------
\* the frames of the connection whose last byte has been read
ArrivedBytes == Len(Bytes(sent)) - Len(inbound)
ArrivedCount ==
    CHOOSE k \in 0..Len(sent) :
        /\ Len(Bytes(SubSeq(sent, 1, k))) <= ArrivedBytes
        /\ k < Len(sent) => Len(Bytes(SubSeq(sent, 1, k + 1))) > ArrivedBytes
Arrived == SubSeq(sent, 1, ArrivedCount)

IsRun(f) == f.command = CONTROL /\ f.data = RUN
IsCommit(f) == IsRun(f) \/ f.command = VERSION
CommitAt(fs) ==
    IF \E i \in 1..Len(fs) : IsCommit(fs[i])
    THEN CHOOSE i \in 1..Len(fs) : IsCommit(fs[i]) /\ \A j \in 1..(i - 1) : ~IsCommit(fs[j])
    ELSE Len(fs) + 1
BeforeCommit(fs) == SubSeq(fs, 1, CommitAt(fs) - 1)
UpToCommit(fs) == SubSeq(fs, 1, IF CommitAt(fs) <= Len(fs) THEN CommitAt(fs) ELSE Len(fs))

RECURSIVE Concat(_)
Concat(ss) == IF ss = <<>> THEN <<>> ELSE Head(ss) \o Concat(Tail(ss))

Indices(fs) == [i \in 1..Len(fs) |-> i]
Payloads(fs, idx) == Concat([j \in 1..Len(idx) |-> qp_decode(fs[idx[j]].data)])

\* the payload of the last SourceFileName frame of fs, empty if there is none
FilenameAfter(fs) ==
    LET names == {i \in 1..Len(fs) : fs[i].command = SOURCEFILENAME} IN
    IF names = {} THEN <<>>
    ELSE qp_decode(fs[CHOOSE i \in names : \A j \in names : j <= i].data)

\* the payloads of the Source frames of fs received under the filename f
SourcesOf(fs, f) ==
    LET Here(i) == fs[i].command = SOURCE /\ FilenameAfter(SubSeq(fs, 1, i - 1)) = f
    IN  Payloads(fs, SelectSeq(Indices(fs), Here))

\* the payloads of the frames of fs with command c
ReceivedOf(fs, c) ==
    LET Here(i) == fs[i].command = c /\ c \notin {SOURCE, SOURCEFILENAME}
    IN  Payloads(fs, SelectSeq(Indices(fs), Here))

FileNames(fs) == {FilenameAfter(SubSeq(fs, 1, i)) : i \in 0..Len(fs)}
Commands(fs) == {fs[i].command : i \in 1..Len(fs)}

\* the bridge holds what the frames fs add up to
Accumulated(fs) ==
    /\ bridge.current_filename = FilenameAfter(fs)
    /\ \A f \in FileNames(fs) \cup DOMAIN bridge.sources :
          MapGet(bridge.sources, f) = SourcesOf(fs, f)
    /\ \A c \in Commands(fs) \cup DOMAIN bridge.received :
          MapGet(bridge.received, c) = ReceivedOf(fs, c)

\* C15: before the commit point the current filename is the payload of the
\* last SourceFileName frame (replaced, not appended), sources[f] is the
\* concatenation in arrival order of the payloads of the Source frames received
\* while the filename was f, and received[c] the concatenation of the
\* payloads of the other frames with command c.
FramesAccumulate == bridge.pc = "reading" => Accumulated(Arrived)

FramesAccumulateWitness ==
    /\ bridge.pc = "reading"
    /\ Len(Arrived) = 3
    /\ Arrived[1].command = SOURCEFILENAME
    /\ Arrived[2].command = SOURCEFILENAME
    /\ Arrived[3].command = SOURCE
    /\ bridge.sources = (<<"a">> :> <<"A">>)

\* the name of the compiler= pair of the last Control frame of fs
LatestControlName(fs) ==
    LET ctl == {i \in 1..Len(fs) : fs[i].command = CONTROL} IN
    IF ctl = {} THEN <<>>
    ELSE parse_ccname(qp_decode(fs[CHOOSE i \in ctl : \A j \in ctl : j <= i].data))

\* C16: at Control: run the compiler looked up is the name of the compiler=
\* pair of the most recently received Control payload.
CompilerFromLatestControl ==
    LET fs == UpToCommit(Arrived) IN
    (fs # <<>> /\ IsRun(fs[Len(fs)]) /\ Len(bridge.decoded) = Len(fs))
        => bridge.ccname = LatestControlName(BeforeCommit(Arrived))

\* C17: after the commit point the maps are those of the frames before it,
\* whatever frames arrived with it or after it, and one object only has been
\* started.
CommitPoint ==
    bridge.started # <<>> =>
        /\ Len(bridge.started) = 1
        /\ Accumulated(BeforeCommit(Arrived))
        /\ bridge.decoded = UpToCommit(Arrived)

CommitPointWitness ==
    /\ bridge.started = <<"program_writer">>
    /\ Len(Arrived) = 3
    /\ CommitAt(Arrived) = 2
    /\ Arrived[3].command = SOURCE

\* C18: however the stream is split into reads, the decoder has matched the
\* frames that have arrived whole (up to the commit point), each once and in
\* order, with their payloads decoded; the bytes of an incomplete trailing
\* frame are all in the buffer.
SplitInvariant ==
    /\ bridge.decoded = UpToCommit(Arrived)
    /\ Accumulated(BeforeCommit(Arrived))
    /\ bridge.pc = "reading" =>
          bridge.buf = SubSeq(Bytes(sent), Len(Bytes(Arrived)) + 1, ArrivedBytes)

SplitInvariantWitness ==
    /\ bridge.pc = "reading"
    /\ Len(bridge.decoded) = 1
    /\ bridge.decoded[1].command = SOURCEFILENAME
    /\ bridge.buf = SOURCE \o <<" ", "3", ":", "=", "4">>

\* ---- status_forwarder ------------------------------------------------------
\* C19: with every signal waking all the waiters of the shared signal set,
\* the handler of a status waiter is called at most once, and only with its
\* own child exited and reaped.
OnExitOnceAfterReaped ==
    \A w \in Waiters :
        /\ status_waiters[w].on_exit <= 1
        /\ status_waiters[w].on_exit = 1 => status_waiters[w].child = "reaped"
        /\ status_waiters[w].wait = "done" <=> status_waiters[w].on_exit = 1

OnExitOnceAfterReapedWitness ==
    /\ status_waiters[1].on_exit = 1
    /\ status_waiters[2].child = "running"
    /\ status_waiters[2].wait = "armed"
    /\ signalled = MaxSignals

\* ---- peer disconnect -------------------------------------------------------
RunPhaseReached ==
    /\ runner_pc = RunPhase.pc
    /\ procs = RunPhase.procs
    /\ limitter = RunPhase.limitter
    /\ sockbuf = RunPhase.sockbuf
    /\ sock = RunPhase.sock

InBatches(f, bs) == \E i \in 1..Len(bs) : \E j \in 1..Len(bs[i]) : bs[i][j] = f

\* the frame was given to async_write, before or after the disconnect
HandedToSocket(f) == InBatches(f, sock.wrote) \/ InBatches(f, sock.failed)

\* every signal sent to a child has its own cause: the output limit passed
\* or kill_timer expired
SignalsHaveCause ==
    \A c \in Children : \A sg \in procs[c].signals :
        \/ sg.by = "limit" /\ limitter.soft_limit < limitter.current
        \/ sg.by = "timer" /\ \E k \in Children : procs[k].expired > 0

\* a forwarder, and program_runner, waiting for a write has the write
\* pending, so its completion resumes it
WritesPending ==
    /\ \A c \in Children : \A s \in 1..2 :
          procs[c].out[s].pc = "writing" =>
              \E i \in 1..Len(sock.outstanding) : sock.outstanding[i].owner = <<c, s>>
    /\ sockbuf.writing =>
              \E i \in 1..Len(sock.outstanding) : sock.outstanding[i].owner = <<0, 0>>

\* nothing of the session is left to run
Quiescent ==
    /\ sock.outstanding = <<>>
    /\ \A c \in Children :
          /\ all_closed(procs[c])
          /\ \A s \in 1..2 : procs[c].out[s].pc = "closed"

\* C20: after the peer has disconnected no signal is sent to the child but
\* for the output limit, the forwarders go on reading the pipes (a write
\* that fails resumes them as one that succeeds), and when the pipes are
\* closed and the child is reaped the session has come to Control: Finish.
DisconnectKeepsChild ==
    sock.peer = "closed" =>
        /\ SignalsHaveCause
        /\ WritesPending
        /\ Quiescent => HandedToSocket(ControlFinish)

DisconnectKeepsChildWitness ==
    /\ sock.peer = "closed"
    /\ Quiescent
    /\ InBatches(ControlFinish, sock.failed)
    /\ procs[2].proc = "exit0"
    /\ procs[2].signals = {}
    /\ \E i \in 1..Len(sock.failed) : \E j \in 1..Len(sock.failed[i]) :
          sock.failed[i][j].cmd = "StdOut"

\* ---- the session's semaphore unit ------------------------------------------
\* an operation of the session is pending, or a handler of it is to be called
Active ==
    \/ bridge.pc = "reading"
    \/ writer.pc \in {"retry", "store_write", "archive_write"}
    \/ version.pc \in {"wait", "read", "write"}
    \/ sock.outstanding # <<>>
    \/ \E c \in Children :
          \/ procs[c].stdin = "writing"
          \/ \E s \in 1..2 : procs[c].out[s].pc # "closed"
          \/ ~procs[c].finished
          \/ procs[c].timer.st \in {"armed", "fired", "aborted"}

\* C12: the session returns one unit, not more, and it has returned it
\* exactly when no part of it (reader, writer, version listing, runner,
\* forwarder, timer continuation) is pending any more.
UnitReturnedOnce ==
    /\ sem_released <= 1
    /\ sem_released = 1 <=> ~Active

UnitReturnedOnceWitness ==
    /\ sem_released = 1
    /\ Len(procs) = 2
    /\ procs[1].timer.st = "ended"
    /\ procs[2].timer.st = "ended"
    /\ staged # {}
    /\ InBatches(ControlFinish, sock.wrote)

\* ---- program_runner: the end of a session ---------------------------------
\* C21: a session whose Control: Start is on the wire and of which nothing is
\* left to run (no write outstanding, every child reaped, every pipe closed and
\* every completion handler run) has Control: Finish on the wire.
StartedSessionFinishes ==
    (InBatches(ControlStart, sock.wrote) /\ Quiescent) =>
        InBatches(ControlFinish, sock.wrote)

\* the same of the sessions whose spawns succeed
StartedSessionFinishesSpawned ==
    (runner_pc = "running" /\ InBatches(ControlStart, sock.wrote) /\ Quiescent) =>
        InBatches(ControlFinish, sock.wrote)

\* ---- version_sender --------------------------------------------------------
\* the compilers a listing is about
Listable(c) == c.displayable /\ c.version_command # <<>>

\* the version child of compiler c exited normally with status 0
ExitedZero(c) ==
    \E i \in 1..Len(version.children) :
        version.children[i].name = c.name /\ version.children[i].st = "exit0"

\* ... and had written to its stdout
ExitedZeroWithOutput(c) ==
    \E i \in 1..Len(version.children) :
        /\ version.children[i].name = c.name
        /\ version.children[i].st = "exit0"
        /\ version.children[i].output

Names(cs) == [i \in 1..Len(cs) |-> cs[i].name]

OnlyVersionResult ==
    /\ Len(Wire(sock)) <= 1
    /\ \A i \in 1..Len(Wire(sock)) : Wire(sock)[i].cmd = "VersionResult"

OneVersionChild ==
    Cardinality({i \in 1..Len(version.children) : version.children[i].st = "running"}) <= 1

\* C22: a version listing puts one frame on the wire, VersionResult, and no
\* other; its entries are, in the order of the catalogue, the compilers that
\* are displayable, have a version_command and whose version child exited with
\* status 0; at most one version child runs at a time.
VersionListing ==
    /\ OnlyVersionResult
    /\ OneVersionChild
    /\ version.pc \in {"write", "ended"} =>
          Wire(sock) = << VersionResult(Names(SelectSeq(version.compilers,
                              LAMBDA c : Listable(c) /\ ExitedZero(c)))) >>

\* the listing as the code makes it: of the compilers whose child exited with
\* status 0, those whose child had written to its stdout
VersionListingOfOutput ==
    /\ OnlyVersionResult
    /\ OneVersionChild
    /\ version.pc \in {"write", "ended"} =>
          Wire(sock) = << VersionResult(Names(SelectSeq(version.compilers,
                              LAMBDA c : Listable(c) /\ ExitedZeroWithOutput(c)))) >>

\* ---- output_forwarder ------------------------------------------------------
\* the writes of forwarder s of child c that have not completed
InFlight(c, s) == {i \in 1..Len(sock.outstanding) : sock.outstanding[i].owner = <<c, s>>}

\* the frames of stream s of child c among fs, in the order of fs
StreamOf(c, s, fs) ==
    SelectSeq(fs, LAMBDA f : f.src = c /\ f.cmd = OutCommand(procs[c].phase, s))

InReadOrder(fs) == \A i, j \in 1..Len(fs) : i < j => fs[i].data < fs[j].data

\* C23: a forwarder has a read pending, or has closed its pipe, only with
\* every frame of its chunks written (no write of it outstanding, nothing left
\* in its sockbuf); it has at most one frame in flight; and the chunks of one
\* stream are given to the socket in the order they were read.
ForwarderOneFrameInFlight ==
    \A c \in Children : \A s \in 1..2 :
        LET f == procs[c].out[s] IN
        /\ Cardinality(InFlight(c, s)) <= 1
        /\ Len(f.sockbuf.front_buf) + Len(f.sockbuf.back_buf) <= 1
        /\ f.pc # "writing" =>
              /\ InFlight(c, s) = {}
              /\ f.sockbuf.front_buf = <<>> /\ f.sockbuf.back_buf = <<>>
        /\ InReadOrder(StreamOf(c, s, Wire(sock)))
        /\ InReadOrder(StreamOf(c, s, Flatten(sock.failed)))

\* the forwarder of the program's stdout has had two chunks: both frames are
\* written, the second after the first, and its third read is pending
ForwarderOneFrameInFlightWitness ==
    /\ Len(procs) = 2
    /\ procs[2].out[1].pc = "reading"
    /\ Len(StreamOf(2, 1, Wire(sock))) = 2
    /\ sock.outstanding = <<>>

\* ---- program_runner: the command lines -------------------------------------
Elements(q) == {q[i] : i \in 1..Len(q)}

\* the flags of the switches of config.switches
AllFlags == UNION {Elements(config_switches[sw].flags) : sw \in DOMAIN config_switches}

\* the ids of a CompilerOption payload: what stands between its commas and
\* line ends
ListedIds(str) ==
    {SubSeq(str, p[1], p[2]) :
        p \in {q \in (1..Len(str)) \X (1..Len(str)) :
                  /\ q[1] <= q[2]
                  /\ q[1] > 1 => str[q[1] - 1] \in {",", "\n"}
                  /\ q[2] < Len(str) => str[q[2] + 1] \in {",", "\n"}}}

Received(key) == IF key \in DOMAIN commands.received THEN commands.received[key] ELSE <<>>

\* a payload with its line ends (CR LF, LF or CR) as LF
LineEndsAsLF(input) ==
    LET kept == SelectSeq([i \in 1..Len(input) |-> <<i, input[i]>>],
                          LAMBDA pr : ~(pr[2] = "\r" /\ pr[1] < Len(input) /\ input[pr[1] + 1] = "\n"))
    IN  [j \in 1..Len(kept) |-> IF kept[j][2] = "\r" THEN "\n" ELSE kept[j][2]]

RECURSIVE JoinLF(_)
JoinLF(pieces) ==
    IF pieces = <<>> THEN <<>>
    ELSE IF Len(pieces) = 1 THEN pieces[1]
    ELSE pieces[1] \o <<"\n">> \o JoinLF(Tail(pieces))

\* pieces are the lines of input, less one empty line at its end
IsLines(pieces, input) ==
    /\ \A i \in 1..Len(pieces) : \A j \in 1..Len(pieces[i]) : pieces[i][j] \notin {"\r", "\n"}
    /\ \/ /\ LineEndsAsLF(input) = JoinLF(pieces)
          /\ pieces = <<>> \/ pieces[Len(pieces)] # <<>>
       \/ /\ LineEndsAsLF(input) = JoinLF(pieces) \o <<"\n">>
          /\ pieces # <<>>

\* args is jail_command and command, with flags among them, and after all of
\* these the lines of the raw option
RawAfterFlags(args, command, key) ==
    \E n \in 0..Len(args) :
        LET head == SubSeq(args, 1, Len(args) - n)
            tail == SubSeq(args, Len(args) - n + 1, Len(args))
        IN  /\ IsLines(tail, Received(key))
            /\ \A i \in 1..Len(tail) : tail[i] \notin AllFlags
            /\ SelectSeq(head, LAMBDA e : e \notin AllFlags) = jail_command \o command

\* C24: both command lines begin with jail.jail_command; the flags of a switch
\* are in a command line only if its id is in the client's CompilerOption, in
\* the compiler's switches and in config.switches, those of a runtime switch
\* only in the run command line and those of the others only in the compile
\* command line; the lines of CompilerOptionRaw and RuntimeOptionRaw come after
\* all flags, one element each, less one empty line at the end.
CommandLines ==
    commands.commands # <<>> =>
        LET ccargs == commands.commands[1].arguments
            progargs == commands.commands[2].arguments
            tc == commands.target_compiler
        IN  /\ IsPrefix(jail_command, ccargs)
            /\ IsPrefix(jail_command, progargs)
            /\ \A sw \in DOMAIN config_switches : \A fl \in Elements(config_switches[sw].flags) :
                  /\ fl \in Elements(ccargs) \cup Elements(progargs) =>
                        /\ sw \in ListedIds(Received("CompilerOption"))
                        /\ sw \in Elements(tc.switches)
                  /\ fl \in Elements(ccargs) => ~config_switches[sw].runtime
                  /\ fl \in Elements(progargs) => config_switches[sw].runtime
            /\ RawAfterFlags(ccargs, tc.compile_command, "CompilerOptionRaw")
            /\ RawAfterFlags(progargs, tc.run_command, "RuntimeOptionRaw")

\* a compile and a runtime switch are selected among the three of the
\* compiler, and a raw option of two lines, the second empty, is given for both
CommandLinesWitness ==
    /\ commands.commands # <<>>
    /\ commands.target_compiler.switches = ProfileSwitches
    /\ Received("CompilerOption") = <<"b", ",", "a">>
    /\ Received("CompilerOptionRaw") = <<"x", "\n">>
    /\ Received("RuntimeOptionRaw") = <<"x", "\n">>
    /\ commands.commands[1].arguments =
           jail_command \o << <<"c", "c">>, <<"-", "a">>, <<"p">>, <<"x">> >>
    /\ commands.commands[2].arguments =
           jail_command \o << <<"p">>, <<"-", "r">>, <<"-", "s">>, <<"x">> >>

\* ---- program_runner: the join of a phase -----------------------------------
\* the frames with the status of the last phase given to the socket
StatusFrames ==
    {i \in 1..Len(Wire(sock)) : Wire(sock)[i].cmd \in {"ExitCode", "Signal"}}

\* C25: the join at the end of a phase is passed once: no phase has a second
\* child, and the status of the session is written once.
JoinPassedOnce ==
    /\ OneChildPerPhase
    /\ Cardinality(StatusFrames) <= 1

\* ---- the signals sent to the children --------------------------------------
\* C26: a child whose exit has been collected is sent no signal any more,
\* neither by the output limiter nor by a continuation of kill_timer; and the
\* step of a continuation of kill_timer sends a signal to no child but the
\* one of its own phase.
SignalOnlyUnreaped ==
    [][ /\ \A c \in Children :
             procs[c].finished => procs'[c].signals = procs[c].signals
        /\ \A c \in Children :
             (procs[c].timer.st = "fired" /\ procs'[c].timer # procs[c].timer) =>
                 \A d \in Children \ {c} : procs'[d].signals = procs[d].signals ]_vars

\* the wait of the compile phase had expired when the compilation was reaped:
\* its continuation ran in the run phase (it waits for the hard limit now) and
\* neither the compilation nor the program has been sent a signal
SignalOnlyUnreapedWitness ==
    /\ Len(procs) = 2
    /\ procs[1].finished
    /\ procs[1].timer = [stage |-> "hard", st |-> "armed"]
    /\ procs[1].signals = {}
    /\ procs[2].proc = "running"
    /\ procs[2].signals = {}

\* ---- listener: the accept loop ---------------------------------------------
\* the listener waits for the eventfd, whose counter is 0
ListenerBlocked == listener_pc = "semaphore" /\ ~eventfd_readable(des)

\* C27: the listener has an accept pending or waits for the eventfd; with
\* fewer than max_connections sessions active it is not blocked (the accept
\* is pending, or the read of the eventfd can complete as things are); and a
\* session that ends while the listener is blocked leaves it unblocked, also
\* when it is the session whose own read of the eventfd is the pending one.
AcceptLoopGoesOn ==
    /\ [](/\ listener_pc \in {"accept", "semaphore"}
          /\ listener_pc = "semaphore" => sem_read # 0
          /\ Cardinality(ActiveSessions) < max_connections => ~ListenerBlocked)
    /\ [][ (ListenerBlocked /\ \E s \in Sessions : session[s] = "active" /\ session'[s] = "ended")
              => (listener_pc' = "semaphore" /\ sem_read' # 0 /\ eventfd_readable(des')) ]_vars

\* the listener was blocked and the session whose own read of the eventfd is
\* pending has ended: the read can complete
AcceptLoopGoesOnWitness ==
    /\ listener_pc = "semaphore"
    /\ sem_read # 0
    /\ session[sem_read] = "ended"
    /\ des = 1
    /\ Cardinality(ActiveSessions) = max_connections - 1

====
